---------------------------- MODULE Spec2Model ----------------------------
(***************************************************************************)
(* A model of the ING FR unofficial API client: the virtual keypad solver  *)
(* (PasswordKeypad.js), the strong-customer-authentication flows of IngApi *)
(* (IngApi.js) and the SMS validation endpoint of the Express shell        *)
(* (app.js).                                                               *)
(*                                                                         *)
(* Two specifications share the module:                                    *)
(*   SpecKeypad  PasswordKeypad.getClicksPositions applied to bounded      *)
(*               inputs (keypad image, size multiplier, password, missing  *)
(*               positions, Math.random draws);                            *)
(*   Spec        calls on one IngApi instance, each an async function      *)
(*               that suspends at every fetch and every body read.         *)
(***************************************************************************)
EXTENDS Integers, Sequences, FiniteSets, TLC

VARIABLES
    kpPc,               \* "ready" before getClicksPositions is called, "called" after
    kpImage,            \* the keypad image handed to the PasswordKeypad constructor
    kpMult,             \* this.sizeMultiplication
    kpPassword,         \* the password argument
    kpMissing,          \* the missingPasswordDigitsPositions argument
    kpResult,           \* what getClicksPositions returned or threw
    session,            \* IngApi.session
    validationRequest,  \* IngApi.validationRequest
    proc,               \* the async calls running on the instance, by caller
    otpPending,         \* server side: the operation whose OTP was sent last
    server,             \* server side: the auth tokens issued so far and the
                        \* responses on their way to the callers
    tokenRequests       \* server side: saveInvest/token/generate requests that
                        \* calls to the Save Invest API have made, up to
                        \* MaxTokenRequests

kpVars == <<kpPc, kpImage, kpMult, kpPassword, kpMissing, kpResult>>
apiVars == <<session, validationRequest, proc, otpPending, tokenRequests, server>>
vars == <<kpPc, kpImage, kpMult, kpPassword, kpMissing, kpResult,
          session, validationRequest, proc, otpPending, tokenRequests, server>>

(***************************************************************************)
(* JavaScript values.  null and undefined are records of their own, a      *)
(* string s is Str(s) and an object is the record of its properties, so    *)
(* any two values can be compared.                                         *)
(***************************************************************************)
Null == [js |-> "null"]
Undefined == [js |-> "undefined"]
Str(s) == [str |-> s]

\* JavaScript truthiness (no 0 or NaN occurs where the code tests a value this
\* way).
Truthy(v) == v \notin {Null, Undefined, Str("")}

\* obj.field for a plain object: undefined when the object has no such property.
GetProp(obj, field) == IF field \in DOMAIN obj THEN obj[field] ELSE Undefined

\* A parameter declared "= null": undefined, or no argument, becomes null.
DefaultNull(v) == IF v = Undefined THEN Null ELSE v

(***************************************************************************)
(* IEEE-754 double arithmetic, exact for the values the keypad produces.   *)
(* A double v >= 0 is <<i, f1, f2, f3>> = i + f1/2^18 + f2/2^36 + f3/2^54. *)
(* Every value met is 0, a multiple of 2^-53 below 1 that a product leaves *)
(* exact, or lies in [1, 2^16), where one unit in the last place is        *)
(* 2^(e-52) = 2^(e+2) units of 2^-54 for v in [2^e, 2^(e+1)).              *)
(***************************************************************************)
Limb == 2^18

FNorm(i, a1, a2, a3) ==
    LET t2 == a2 + (a3 \div Limb)
        t1 == a1 + (t2 \div Limb)
    IN  <<i + (t1 \div Limb), t1 % Limb, t2 % Limb, a3 % Limb>>

Log2Floor(n) == CHOOSE e \in 0..15 : 2^e <= n /\ n < 2^(e+1)

\* Round to nearest, ties to even, at 53 significant bits.
FRound(v) ==
    IF v[1] = 0 THEN v
    ELSE LET U    == 2^(Log2Floor(v[1]) + 2)
             rem  == v[4] % U
             down == <<v[1], v[2], v[3], v[4] - rem>>
             up   == FNorm(v[1], v[2], v[3], v[4] - rem + U)
             odd  == ((v[4] \div U) % 2) = 1
         IN  IF 2 * rem < U THEN down
             ELSE IF 2 * rem > U THEN up
             ELSE IF odd THEN up ELSE down

FromInt(n) == <<n, 0, 0, 0>>

\* a * n for a double a and an integer-valued double n.
FMul(a, n) == FRound(FNorm(a[1] * n, a[2] * n, a[3] * n, a[4] * n))

\* a + b
FAdd(a, b) == FRound(FNorm(a[1] + b[1], a[2] + b[2], a[3] + b[3], a[4] + b[4]))

\* a < b
FLess(a, b) ==
    \/ a[1] < b[1]
    \/ a[1] = b[1] /\ a[2] < b[2]
    \/ a[1] = b[1] /\ a[2] = b[2] /\ a[3] < b[3]
    \/ a[1] = b[1] /\ a[2] = b[2] /\ a[3] = b[3] /\ a[4] < b[4]

\* a <= b
FLeq(a, b) == ~FLess(b, a)

(***************************************************************************)
(* PasswordKeypad                                                          *)
(***************************************************************************)
Cells == 0..9

\* Original keypad size is (484, 190)
CanvasWidth == 484
CanvasHeight == 190

\* The layout with the second cell moved left onto the first.
OverlappingPositions ==
    [c \in Cells |->
        [x |-> IF c = 1 THEN 90 ELSE 3 + 97 * (c % 5) - (IF c % 5 >= 1 THEN 1 ELSE 0),
         y |-> IF c < 5 THEN 3 ELSE 98, width |-> 90, height |-> 88]]

\* this.digitsPositions, indexed from 0 as in the source.
digitsPositions ==
    LET cells == << [x |-> 3,   y |-> 3,  width |-> 90, height |-> 88],
                    [x |-> 99,  y |-> 3,  width |-> 90, height |-> 88],
                    [x |-> 196, y |-> 3,  width |-> 90, height |-> 88],
                    [x |-> 293, y |-> 3,  width |-> 90, height |-> 88],
                    [x |-> 390, y |-> 3,  width |-> 90, height |-> 88],
                    [x |-> 3,   y |-> 98, width |-> 90, height |-> 88],
                    [x |-> 99,  y |-> 98, width |-> 90, height |-> 88],
                    [x |-> 196, y |-> 98, width |-> 90, height |-> 88],
                    [x |-> 293, y |-> 98, width |-> 90, height |-> 88],
                    [x |-> 390, y |-> 98, width |-> 90, height |-> 88] >>
    IN  [c \in Cells |-> cells[c + 1]]

\* Jimp.diff(...).percent lies in [0, 1]; the model counts it in hundredths, so
\* the initial closestPercentage of 1 is 100.
FullDifference == 100

\* A glyph is what one cropped cell shows, given by its difference to each of the
\* ten labeled digits.  TemplateGlyph(d) is the unmodified template of d.
TemplateGlyph(d) == [t \in Cells |-> IF t = d THEN 0 ELSE 20 + ((t + 10 - d) % 10)]
\* A cell that matches no template at all.
BlankGlyph == [t \in Cells |-> FullDifference]

\* The keypad whose cell c shows the template of digit (c + k) mod 10.
RotatedKeypad(k) == [c \in Cells |-> TemplateGlyph((c + k) % 10)]

RECURSIVE ClosestFromLastWins(_, _, _, _)
ClosestFromLastWins(glyph, d, closestDigit, closestPercentage) ==
    IF d > 9 THEN closestDigit
    ELSE IF glyph[d] <= closestPercentage
         THEN ClosestFromLastWins(glyph, d + 1, d, glyph[d])
         ELSE ClosestFromLastWins(glyph, d + 1, closestDigit, closestPercentage)

\* The inner loop of getDigits over labeledDigit = d..9.
RECURSIVE ClosestFrom(_, _, _, _)
ClosestFrom(glyph, d, closestDigit, closestPercentage) ==
    IF d > 9 THEN closestDigit
    ELSE IF glyph[d] < closestPercentage
         THEN ClosestFrom(glyph, d + 1, d, glyph[d])
         ELSE ClosestFrom(glyph, d + 1, closestDigit, closestPercentage)

getDigitsSkipsZero(image) == [c \in Cells |-> ClosestFrom(image[c], 1, 0, FullDifference)]

getDigitsMarksUnmatched(image) ==
    [c \in Cells |-> IF \A t \in Cells : image[c][t] >= FullDifference THEN -1
                     ELSE ClosestFrom(image[c], 0, 0, FullDifference)]

\* getDigits: the digit recognised in each cell, in cell order.
getDigits(image) == [c \in Cells |-> ClosestFrom(image[c], 0, 0, FullDifference)]

\* parseInt of a one-character string, and of undefined: NaN unless a digit.
\* NoChar stands for the undefined that password[i] gives past the end.
NaN == -1
NoChar == "undefined"
DigitChars == {"0", "1", "2", "3", "4", "5", "6", "7", "8", "9"}
DigitOfChar(ch) ==
    CASE ch = "0" -> 0 [] ch = "1" -> 1 [] ch = "2" -> 2 [] ch = "3" -> 3
      [] ch = "4" -> 4 [] ch = "5" -> 5 [] ch = "6" -> 6 [] ch = "7" -> 7
      [] ch = "8" -> 8 [] ch = "9" -> 9
parseInt(ch) == IF ch \in DigitChars THEN DigitOfChar(ch) ELSE NaN

\* password[i] for a string (a sequence of characters here) and a 0-based index.
CharAt(password, i) ==
    IF i >= 0 /\ i < Len(password) THEN password[i + 1] ELSE NoChar

IndexOfOrFirst(digits, v) ==
    IF v # NaN /\ \E c \in Cells : digits[c] = v
    THEN CHOOSE c \in Cells : digits[c] = v /\ \A b \in 0..(c - 1) : digits[b] # v
    ELSE 0

\* Array.prototype.indexOf on digits: strict equality, so NaN is never found.
indexOf(digits, v) ==
    IF v # NaN /\ \E c \in Cells : digits[c] = v
    THEN CHOOSE c \in Cells : digits[c] = v /\ \A b \in 0..(c - 1) : digits[b] # v
    ELSE -1

\* One click: cell.x * m + Math.random() * cell.width * m, and the same for y,
\* evaluated left to right in double arithmetic.  draw is <<rx, ry>>.
ClickAt(cell, m, draw) ==
    <<FAdd(FromInt(digitsPositions[cell].x * m),
           FMul(FMul(draw[1], digitsPositions[cell].width), m)),
      FAdd(FromInt(digitsPositions[cell].y * m),
           FMul(FMul(draw[2], digitsPositions[cell].height), m))>>

ZeroBasedDigitsToClick(missing, password) ==
    [i \in 1..Len(missing) |-> parseInt(CharAt(password, missing[i]))]

\* passwordDigitsToClick of getClicksPositions.
PasswordDigitsToClick(missing, password) ==
    [i \in 1..Len(missing) |-> parseInt(CharAt(password, missing[i] - 1))]

ReversedClicks(image, m, missing, password, draws) ==
    LET digits  == getDigits(image)
        toClick == PasswordDigitsToClick(missing, password)
        index   == [i \in 1..Len(missing) |-> indexOf(digits, toClick[i])]
        n       == Len(missing)
    IN  IF \E i \in 1..n : index[i] = -1
        THEN [threw |-> TRUE, clicks |-> <<>>]
        ELSE [threw |-> FALSE,
              clicks |-> [i \in 1..n |-> ClickAt(index[n + 1 - i], m, draws[i])]]

\* getClicksPositions.  digitsPositions[-1] is undefined, so reading its x
\* throws a TypeError and nothing is returned.
getClicksPositions(image, m, missing, password, draws) ==
    LET digits  == getDigits(image)
        toClick == PasswordDigitsToClick(missing, password)
        index   == [i \in 1..Len(missing) |-> indexOf(digits, toClick[i])]
    IN  IF \E i \in 1..Len(missing) : index[i] = -1
        THEN [threw |-> TRUE, clicks |-> <<>>]
        ELSE [threw |-> FALSE,
              clicks |-> [i \in 1..Len(missing) |-> ClickAt(index[i], m, draws[i])]]

\* Cell 1 shows the same glyph as cell 0: digit k twice, digit k + 1 nowhere.
DuplicateKeypad(k) ==
    [c \in Cells |-> IF c = 1 THEN TemplateGlyph(k % 10) ELSE RotatedKeypad(k)[c]]
\* Cell 0 matches no template.
BlankCellKeypad(k) ==
    [c \in Cells |-> IF c = 0 THEN BlankGlyph ELSE RotatedKeypad(k)[c]]
\* A glyph as close to template a as to template b, and closer than to the rest.
TieGlyph(a, b) == [t \in Cells |-> IF t \in {a, b} THEN 10 ELSE 30]
\* Cell 0 shows a glyph between 4 and 6, cell 9 one between 9 and 2.
TieKeypad ==
    [c \in Cells |-> IF c = 0 THEN TieGlyph(4, 6)
                     ELSE IF c = 9 THEN TieGlyph(9, 2)
                     ELSE RotatedKeypad(0)[c]]
\* The templates in reading order but for those of 2 and 5, which are swapped.
SwappedKeypad ==
    [c \in Cells |-> IF c = 2 THEN TemplateGlyph(5)
                     ELSE IF c = 5 THEN TemplateGlyph(2)
                     ELSE TemplateGlyph(c)]

\* new PasswordKeypad(buffer) in connect, new PasswordKeypad(buffer, 5) in the
\* sensitive-operation flows.
LoginMultiplier == 1
ScaMultiplier == 5
Multipliers == {LoginMultiplier, ScaMultiplier}

\* Math.random() draws: 0, 1/2 and the largest value below 1 that every
\* engine can return, 1 - 2^-52.
RandZero == <<0, 0, 0, 0>>
RandHalf == <<0, 2^17, 0, 0>>
RandMax == <<0, Limb - 1, Limb - 1, Limb - 4>>

NoResult == [threw |-> FALSE, clicks |-> <<>>]

(***************************************************************************)
(* IngApi: values                                                          *)
(***************************************************************************)
SensitiveOperationAction ==
    [DISPLAY_TRANSACTIONS     |-> "DISPLAY_TRANSACTIONS",
     EXTERNAL_TRANSFER        |-> "EXTERNAL_TRANSFER",
     ADD_TRANSFER_BENEFICIARY |-> "ADD_TRANSFER_BENEFICIARY"]

Actions == {SensitiveOperationAction[k] : k \in DOMAIN SensitiveOperationAction}

\* The callers of the instance.  Under Spec only "main" calls, and awaits each
\* call before the next one, as main() of the usage example does.
Procs == {"main", "other"}

\* this.password
Password == <<"8", "4", "7">>

\* A 200 response whose JSON is an error payload.
ErrorPayload(code) == [error |-> [code |-> Str(code)]]

\* body: null
NoBody == [bodyIsNull |-> TRUE]

\* A JSON array: the record tells it from an object.
ArrayBody(seq) == [array |-> seq]
IsArray(body) == "array" \in DOMAIN body

\* --- what the server may answer, per endpoint ---------------------------
ServerCookies == {Str("cookie1")}
ServerTokens == {Str("token1")}

\* The auth token the server issues as its n-th one, and the rank of a token
\* in the order of issue (0 for the tokens above, whose order is left open).
IssuedToken(n) == [str |-> "token", issue |-> n]
IssueOf(token) == IF "issue" \in DOMAIN token THEN token.issue ELSE 0

\* The Set-Cookie and Ingdf-Auth-Token headers a response to path may carry:
\* none (null from headers.get), one with an empty value, or a value.  The
\* answers to accounts try two cookies and the empty values.
SetCookieHeaders(path) ==
    IF path = "accounts" THEN {Null, Str(""), Str("cookie1"), Str("cookie2")}
    ELSE {Null} \cup ServerCookies
AuthTokenHeaders(path) ==
    IF path = "accounts" THEN {Null, Str(""), Str("token1")}
    ELSE {Null} \cup ServerTokens

LoginBodies ==
    {[regieId |-> Str("regie1"), mustCreatePinCode |-> FALSE],
     ErrorPayload("AUTHENTICATION.INVALID_CIF_AND_BIRTHDATE_COMBINATION")}
\* The second answer asks for a position past the end of the password.
LoginKeypadBodies ==
    {[pinPositions |-> <<1, 3>>], [pinPositions |-> <<1, 4>>],
     ErrorPayload("SCA.STEP1_NOT_DONE")}
LoginPinBodies == {[strongAuthenticationLoginExempted |-> TRUE]}
SessionBodies == {[authenticated |-> TRUE], [authenticated |-> FALSE]}
ScaKeyPadBodies ==
    {[pinPositions |-> <<1, 3>>, keyPadUrl |-> Str("keypad/sca.png")],
     ErrorPayload("SCA.STEP1_NOT_DONE")}
ValidatePinBodies ==
    {[validated |-> TRUE, secretCode |-> Str("secret1")],
     [validated |-> TRUE, secretCode |-> Str("secret2")],
     ErrorPayload("SCA.STEP1_NOT_DONE")}
SendOtpBodies == {[acknowledged |-> TRUE], ErrorPayload("SCA.STEP1_NOT_DONE")}
ConfirmOtpBodies == {[acknowledged |-> TRUE], [acknowledged |-> FALSE]}
TransferValidateBodies ==
    {[executionSuggestedDate |-> Str("2020-01-02")], ErrorPayload("TRANSFER.REFUSED")}
ExternalAccountBodies ==
    {[accountHolderName |-> Str("holder"), bankName |-> Str("bank"),
      bic |-> Str("bic"), iban |-> Str("iban1")],
     ErrorPayload("EXTERNAL_ACCOUNT.IBAN_BAD_FORMAT")}
ToggleBodies == {[status |-> Str("ok")]}
AccountsBodies == {[aggregatedBalance |-> 100], ErrorPayload("SCA.STEP1_NOT_DONE")}
SaveInvestTokenBodies ==
    {[token |-> Str("bearer1"), cif |-> Str("customerId")],
     ErrorPayload("SCA.STEP1_NOT_DONE")}
AccountByIdBodies == {[uid |-> Str("account1")], ErrorPayload("ACCOUNT.NOT_FOUND")}
DebitAccountsBodies == {ArrayBody(<<[uid |-> Str("account1")]>>)}
MandatesBodies == {[mandates |-> Str("none")], ErrorPayload("SCA.STEP1_NOT_DONE")}

\* Longest list of OTP channels the server returns.
MaxChannels == 2
ChannelTypes == {"EMAIL", "SMS_MOBILE"}
\* The i-th entry of a list has phone i, so two entries of one type differ.
ChannelLists ==
    UNION {{[i \in 1..n |-> [phone |-> i, type |-> t[i]]] : t \in [1..n -> ChannelTypes]}
           : n \in 0..MaxChannels}
ChannelsBodies == {ArrayBody(l) : l \in ChannelLists} \cup {ErrorPayload("SCA.STEP1_NOT_DONE")}

\* The bytes of a keypad image: a PNG showing a keypad, or something Jimp
\* cannot read.
ImageBuffers ==
    {[png |-> TRUE, cells |-> RotatedKeypad(2)],
     [png |-> TRUE, cells |-> BlankCellKeypad(8)],
     [png |-> FALSE]}

\* A response body that is no JSON.
NotJson == [notJson |-> TRUE]

\* What the server may answer to a request to path.
BodiesFor(path) ==
    IF path \in {"keypad/newkeypad.png", "{keyPadUrl}"} THEN ImageBuffers
    ELSE {NotJson} \cup
         (CASE path = "login/cif?v2=true" -> LoginBodies
            [] path = "login/keypad?v2=true" -> LoginKeypadBodies
            [] path = "login/sca/pin" -> LoginPinBodies
            [] path = "session" -> SessionBodies
            [] path = "sca/keyPad" -> ScaKeyPadBodies
            [] path = "sca/validatePin" -> ValidatePinBodies
            [] path = "sca/sendOtp" -> SendOtpBodies
            [] path = "sca/confirmOtp" -> ConfirmOtpBodies
            [] path = "transfers/v3/new/validate" -> TransferValidateBodies
            [] path = "externalAccounts/add/validateRequest" -> ExternalAccountBodies
            [] path \in {"sensitiveoperation/" \o a \o "/otpChannels" : a \in Actions}
                 -> ChannelsBodies
            [] path = "accounts" -> AccountsBodies
            [] path \in {"accounts/account1", "accounts/debit"} -> AccountByIdBodies
            [] path = "transfers/debitAccounts" -> DebitAccountsBodies
            [] path = "saveInvest/token/generate" -> SaveInvestTokenBodies
            [] path = "lifeinsurance/mandate" -> MandatesBodies
            [] OTHER -> ToggleBodies)

\* The status of a response.  fetch() resolves whatever the status is, and
\* the code reads neither res.ok nor res.status.
Statuses == {200, 500}
IsOk(status) == status \in 200..299

\* What the server may send with a status outside 2xx: an error payload or a
\* page that is no JSON; for an image, bytes that are no image.
FailureBodiesFor(path) ==
    IF path \in {"keypad/newkeypad.png", "{keyPadUrl}"} THEN {[png |-> FALSE]}
    ELSE {ErrorPayload("TECHNICAL_ERROR"), NotJson}

\* The responses fetch() may resolve with for a request to path.  A response
\* outside 2xx carries neither Set-Cookie nor Ingdf-Auth-Token.
ResponsesFor(path) ==
    {[status |-> 200, setCookie |-> c, authToken |-> t, body |-> b] :
        c \in SetCookieHeaders(path), t \in AuthTokenHeaders(path), b \in BodiesFor(path)}
    \cup {[status |-> st, setCookie |-> Null, authToken |-> Null, body |-> b] :
              st \in {x \in Statuses : ~IsOk(x)}, b \in FailureBodiesFor(path)}

\* The draws of Math.random() tried within the flows.
FlowDrawPairs == {<<RandHalf, RandHalf>>}

\* --- what the callers may pass -------------------------------------------
TransferArgs ==
    {[fromAccount |-> Str("account1"), toAccount |-> Str("beneficiary1"),
      amount |-> 10, label |-> Str("label")]}

\* {fromAccount, toAccount, amount, label, executionDate}
TransferRequest(args, executionDate) ==
    [fromAccount |-> args.fromAccount, toAccount |-> args.toAccount,
     amount |-> args.amount, label |-> args.label, executionDate |-> executionDate]

\* The request argument of a direct call of validatePinSensitiveOperationAction,
\* sendOneTimePassword or confirmOneTimePassword.
RequestArgs ==
    {Null, Undefined,
     TransferRequest(CHOOSE a \in TransferArgs : a.toAccount = Str("beneficiary1"),
                     Str("2020-01-02")),
     CHOOSE b \in ExternalAccountBodies : GetProp(b, "iban") = Str("iban1")}
SecretCodeArgs == {Undefined, Str("secret1")}
OtpArgs == {Str("123456")}

(***************************************************************************)
(* IngApi: one async call                                                  *)
(* pc is "fetch" while the call awaits fetch(), "body" while it awaits     *)
(* res.json() or res.buffer(), "returned" or "threw" once it has settled.  *)
(* reqs are the requests the call has issued, answered counts the          *)
(* responses it has received, sent holds the headers of the last request   *)
(* and response the body of the response the call is reading or read last; *)
(* headers are the status and the Set-Cookie and Ingdf-Auth-Token headers  *)
(* of the response while the call reads its body.                          *)
(***************************************************************************)
NoHeaders == [none |-> TRUE]

IdleProc ==
    [kind |-> "idle", pc |-> "idle", step |-> "none", action |-> "none",
     args |-> Null, request |-> Null, keypad |-> Null, validatePin |-> Null,
     channels |-> Null, reqs |-> <<>>, answered |-> 0, sent |-> NoHeaders,
     headers |-> Null, response |-> Null, result |-> Undefined]

NewCall(kind, action) == [IdleProc EXCEPT !.kind = kind, !.action = action]

Request(path, method, body) == [path |-> path, method |-> method, body |-> body]

Fetch(pr, path, method, body, headers) ==
    [pr EXCEPT !.pc = "fetch", !.step = path,
               !.reqs = Append(@, Request(path, method, body)),
               !.sent = headers, !.headers = Null, !.response = Null]

\* callIngSecureApi up to its await fetch(...): the request leaves with the
\* session's cookie and auth token.
callIngSecureApi(pr, path, method, body) ==
    Fetch(pr, path, method, body,
          [ContentType |-> "application/json", Cookie |-> session.cookie,
           IngdfAuthToken |-> session.authToken])

LoginImagePath == "keypad/newkeypad.png"
ScaImagePath == "{keyPadUrl}"
ImagePaths == {LoginImagePath, ScaImagePath}

\* getKeypadImageBuffer up to its await fetch(...)
getKeypadImageBuffer(pr) ==
    Fetch(pr, LoginImagePath, "GET", NoBody, [Cookie |-> session.cookie])

\* getKeypadImageBufferSensitiveOperationAction up to its await fetch(...)
getKeypadImageBufferSensitiveOperationAction(pr) ==
    Fetch(pr, ScaImagePath, "GET", NoBody,
          [Cookie |-> session.cookie, IngdfAuthToken |-> session.authToken])

Throw(pr, error) == [pr EXCEPT !.pc = "threw", !.result = Str(error), !.headers = Null]
Return(pr, value) == [pr EXCEPT !.pc = "returned", !.result = value, !.headers = Null]

\* --- the request builders ------------------------------------------------
loginWithCustomerIdAndBirthdate(pr) ==
    callIngSecureApi(pr, "login/cif?v2=true", "POST",
                     [cif |-> Str("customerId"), birthDate |-> Str("birthdate")])

\* this.regieId: a field of the instance that no code assigns.
ThisRegieId == Undefined

loginWithRegieIdAndBirthdate(pr) ==
    callIngSecureApi(pr, "login/cif?v2=true", "POST",
                     [regieId |-> ThisRegieId, birthDate |-> Str("birthdate")])

getMissingPasswordDigitsPositions(pr) ==
    callIngSecureApi(pr, "login/keypad?v2=true", "POST",
                     [keyPadSize |-> [width |-> 3800, height |-> 1520], mode |-> Str("")])

postLoginPinCode(pr, clickPositions) ==
    callIngSecureApi(pr, "login/sca/pin", "POST", [clickPositions |-> clickPositions])

getSession(pr) == callIngSecureApi(pr, "session", "GET", NoBody)

getMissingPasswordDigitsPositionsSensitiveOperationAction(pr, sensitiveOperationAction) ==
    callIngSecureApi(pr, "sca/keyPad", "POST",
                     [keyPadSize |-> [width |-> 3800, height |-> 1520],
                      sensitiveOperationAction |-> sensitiveOperationAction])

getSensitiveOperationOneTimePasswordChannels(pr, sensitiveOperationType) ==
    callIngSecureApi(pr, "sensitiveoperation/" \o sensitiveOperationType \o "/otpChannels",
                     "GET", NoBody)

validateNewTransfer(pr, args) ==
    callIngSecureApi(pr, "transfers/v3/new/validate", "POST",
                     [fromAccount |-> args.fromAccount, toAccount |-> args.toAccount,
                      amount |-> args.amount, label |-> args.label,
                      keyPadSize |-> [width |-> 3800, height |-> 1520]])

addExternalAccountRequest(pr) ==
    callIngSecureApi(pr, "externalAccounts/add/validateRequest", "POST",
                     [accountHolderName |-> Str("holder"), iban |-> Str("iban")])

toggleScaStatus(pr, sensitiveOperationAction) ==
    callIngSecureApi(pr, "toggle/sca/status?action=" \o sensitiveOperationAction,
                     "GET", NoBody)

ValidatePinBodyAnyAction(clickPositions, sensitiveOperationAction, request) ==
    LET body == [keyPad |-> [clickPositions |-> clickPositions],
                 sensitiveOperationAction |-> sensitiveOperationAction]
    IN  IF Truthy(request) THEN body @@ [transactionRequest |-> request] ELSE body

\* The body validatePinSensitiveOperationAction posts.
ValidatePinBody(clickPositions, sensitiveOperationAction, request) ==
    LET body == [keyPad |-> [clickPositions |-> clickPositions],
                 sensitiveOperationAction |-> sensitiveOperationAction]
    IN  IF sensitiveOperationAction = SensitiveOperationAction.EXTERNAL_TRANSFER
           /\ Truthy(request)
        THEN body @@ [transactionRequest |-> request]
        ELSE IF sensitiveOperationAction = SensitiveOperationAction.ADD_TRANSFER_BENEFICIARY
                /\ Truthy(request)
        THEN body @@ [externalAccountsRequest |-> request]
        ELSE body

validatePinSensitiveOperationAction(pr, clickPositions, sensitiveOperationAction, request) ==
    callIngSecureApi(pr, "sca/validatePin", "POST",
        ValidatePinBody(clickPositions, sensitiveOperationAction, DefaultNull(request)))

\* The body sendOneTimePassword posts.
SendOtpBody(sensitiveOperationAction, secretCode, channelValue, channelType, request) ==
    LET body == [sensitiveOperationAction |-> sensitiveOperationAction,
                 secretCode |-> secretCode, channelValue |-> channelValue,
                 channelType |-> channelType]
    IN  IF sensitiveOperationAction = SensitiveOperationAction.EXTERNAL_TRANSFER
           /\ Truthy(request)
        THEN body @@ [transactionRequest |-> request]
        ELSE IF sensitiveOperationAction = SensitiveOperationAction.ADD_TRANSFER_BENEFICIARY
                /\ Truthy(request)
        THEN body @@ [externalAccountsRequest |-> request]
        ELSE body

sendOneTimePassword(pr, sensitiveOperationAction, secretCode, channelValue, channelType, request) ==
    callIngSecureApi(pr, "sca/sendOtp", "POST",
        SendOtpBody(sensitiveOperationAction, secretCode, channelValue, channelType,
                    DefaultNull(request)))

\* The body confirmOneTimePassword posts.
ConfirmOtpBody(sensitiveOperationAction, oneTimePassword, request) ==
    LET body == [sensitiveOperationAction |-> sensitiveOperationAction,
                 otp |-> oneTimePassword]
    IN  IF sensitiveOperationAction = SensitiveOperationAction.EXTERNAL_TRANSFER
           /\ Truthy(request)
        THEN body @@ [transactionRequest |-> request]
        ELSE IF sensitiveOperationAction = SensitiveOperationAction.ADD_TRANSFER_BENEFICIARY
                /\ Truthy(request)
        THEN body @@ [externalAccountsRequest |-> request]
        ELSE body

confirmOneTimePassword(pr, sensitiveOperationAction, oneTimePassword, request) ==
    callIngSecureApi(pr, "sca/confirmOtp", "POST",
        ConfirmOtpBody(sensitiveOperationAction, oneTimePassword, DefaultNull(request)))

(***************************************************************************)
(* IngApi and app.js: the steps of the calls                               *)
(***************************************************************************)
NoOperation == [none |-> TRUE]

ApiInit ==
    /\ session = [regieId |-> Null, cookie |-> Null, authToken |-> Null,
                  saveInvestToken |-> Null]
    /\ validationRequest = [transactionRequest |-> Null,
                            externalAccountsRequest |-> Null]
    /\ proc = [p \in Procs |-> IdleProc]
    /\ otpPending = NoOperation
    /\ tokenRequests = 0
    /\ server = [issued |-> 0, wire |-> [p \in Procs |-> Null]]

\* The context a request body carries, null when it carries none.
ContextOf(body) ==
    IF "transactionRequest" \in DOMAIN body THEN body.transactionRequest
    ELSE IF "externalAccountsRequest" \in DOMAIN body THEN body.externalAccountsRequest
    ELSE Null

\* The requests of a call to one path, in the order issued.
RequestsTo(pr, path) == SelectSeq(pr.reqs, LAMBDA r : r.path = path)

\* --- a caller starts a call: the code runs up to its first await ---------
CallConnect(p) ==
    /\ proc[p].pc = "idle"
    /\ proc' = [proc EXCEPT ![p] =
                   loginWithCustomerIdAndBirthdate(NewCall("connect", "none"))]
    /\ UNCHANGED <<session, validationRequest, otpPending>>
    /\ UNCHANGED <<kpVars, tokenRequests, server>>

CallAccessMoreTransactions(p) ==
    /\ proc[p].pc = "idle"
    /\ LET sensitiveOperationAction == SensitiveOperationAction.DISPLAY_TRANSACTIONS
       IN  proc' = [proc EXCEPT ![p] =
               getMissingPasswordDigitsPositionsSensitiveOperationAction(
                   NewCall("accessMoreTransactions", sensitiveOperationAction),
                   sensitiveOperationAction)]
    /\ UNCHANGED <<session, validationRequest, otpPending>>
    /\ UNCHANGED <<kpVars, tokenRequests, server>>

CallMakeTransfer(p) ==
    /\ proc[p].pc = "idle"
    /\ \E args \in TransferArgs :
         LET sensitiveOperationAction == SensitiveOperationAction.EXTERNAL_TRANSFER
             call == [NewCall("makeTransfer", sensitiveOperationAction) EXCEPT !.args = args]
         IN  proc' = [proc EXCEPT ![p] = validateNewTransfer(call, args)]
    /\ UNCHANGED <<session, validationRequest, otpPending>>
    /\ UNCHANGED <<kpVars, tokenRequests, server>>

CallAddNewBeneficiary(p) ==
    /\ proc[p].pc = "idle"
    /\ LET sensitiveOperationAction == SensitiveOperationAction.ADD_TRANSFER_BENEFICIARY
       IN  proc' = [proc EXCEPT ![p] =
               addExternalAccountRequest(NewCall("addNewBeneficiary", sensitiveOperationAction))]
    /\ UNCHANGED <<session, validationRequest, otpPending>>
    /\ UNCHANGED <<kpVars, tokenRequests, server>>

\* app.post('/validation/sms'): the handler up to the fetch of sca/confirmOtp.
PostValidationSms(p) ==
    /\ proc[p].pc = "idle"
    /\ \E operation \in Actions, code \in OtpArgs :
         LET request ==
                 IF operation = SensitiveOperationAction.EXTERNAL_TRANSFER
                 THEN GetProp(validationRequest, "transferRequest")
                 ELSE IF operation = SensitiveOperationAction.ADD_TRANSFER_BENEFICIARY
                 THEN GetProp(validationRequest, "externalAccountsRequest")
                 ELSE Null
         IN  proc' = [proc EXCEPT ![p] =
                 confirmOneTimePassword(NewCall("smsValidation", operation),
                                        operation, code, request)]
    /\ UNCHANGED <<session, validationRequest, otpPending>>
    /\ UNCHANGED <<kpVars, tokenRequests, server>>

\* A caller uses a step of the public API on its own.
CallValidatePin(p) ==
    /\ proc[p].pc = "idle"
    /\ \E action \in Actions, request \in RequestArgs :
         proc' = [proc EXCEPT ![p] =
             validatePinSensitiveOperationAction(
                 [NewCall("validatePin", action) EXCEPT !.request = request],
                 <<>>, action, request)]
    /\ UNCHANGED <<session, validationRequest, otpPending>>
    /\ UNCHANGED <<kpVars, tokenRequests, server>>

CallSendOneTimePassword(p) ==
    /\ proc[p].pc = "idle"
    /\ \E action \in Actions, secretCode \in SecretCodeArgs, request \in RequestArgs :
         proc' = [proc EXCEPT ![p] =
             sendOneTimePassword(
                 [NewCall("sendOneTimePassword", action) EXCEPT !.request = request],
                 action, secretCode, 1, "SMS_MOBILE", request)]
    /\ UNCHANGED <<session, validationRequest, otpPending>>
    /\ UNCHANGED <<kpVars, tokenRequests, server>>

CallConfirmOneTimePassword(p) ==
    /\ proc[p].pc = "idle"
    /\ \E action \in Actions, otp \in OtpArgs, request \in RequestArgs :
         proc' = [proc EXCEPT ![p] =
             confirmOneTimePassword(
                 [NewCall("confirmOneTimePassword", action) EXCEPT !.request = request],
                 action, otp, request)]
    /\ UNCHANGED <<session, validationRequest, otpPending>>
    /\ UNCHANGED <<kpVars, tokenRequests, server>>

CallLoginWithRegieIdAndBirthdate(p) ==
    /\ proc[p].pc = "idle"
    /\ proc' = [proc EXCEPT ![p] =
           loginWithRegieIdAndBirthdate(NewCall("loginWithRegieIdAndBirthdate", "none"))]
    /\ UNCHANGED <<session, validationRequest, otpPending>>
    /\ UNCHANGED <<kpVars, tokenRequests, server>>

\* --- the transport answers ------------------------------------------------
ApplyHeadersOnce(sess, setCookie, authToken) ==
    [sess EXCEPT
        !.cookie = IF Truthy(setCookie) /\ ~Truthy(@) THEN setCookie ELSE @,
        !.authToken = IF Truthy(authToken) /\ ~Truthy(@) THEN authToken ELSE @]

ApplyHeadersAndSaveInvestToken(sess, setCookie, authToken) ==
    [sess EXCEPT
        !.cookie = IF Truthy(setCookie) THEN setCookie ELSE @,
        !.authToken = IF Truthy(authToken) THEN authToken ELSE @,
        !.saveInvestToken = IF Truthy(authToken) THEN authToken ELSE @]

ApplyHeadersNewest(sess, setCookie, authToken) ==
    [sess EXCEPT
        !.cookie = IF Truthy(setCookie) THEN setCookie ELSE @,
        !.authToken = IF Truthy(authToken) /\ (~Truthy(@) \/ IssueOf(authToken) >= IssueOf(@))
                      THEN authToken ELSE @]

\* callIngSecureApi between its two awaits:
\*   if (res.headers.get('Set-Cookie')) this.session.cookie = ...
\*   if (res.headers.get('Ingdf-Auth-Token')) this.session.authToken = ...
ApplyHeaders(sess, setCookie, authToken) ==
    [sess EXCEPT
        !.cookie = IF Truthy(setCookie) THEN setCookie ELSE @,
        !.authToken = IF Truthy(authToken) THEN authToken ELSE @]

\* The fetches made outside callIngSecureApi: the two keypad images and the
\* Save Invest API.
SaveInvestPaths == {"lifeinsurance/mandate"}
PlainFetchPaths == ImagePaths \cup SaveInvestPaths

\* fetch() resolves with a response.  callIngSecureApi then takes over the
\* Set-Cookie and Ingdf-Auth-Token headers the response carries (headers.get
\* gives null for a missing header); the other fetches read no header.
FetchResolve(p) ==
    /\ proc[p].pc = "fetch"
    /\ \E res \in ResponsesFor(proc[p].step) :
         /\ session' =
               IF proc[p].step \in PlainFetchPaths THEN session
               ELSE ApplyHeaders(session, res.setCookie, res.authToken)
         /\ proc' = [proc EXCEPT
                        ![p].pc = "body", ![p].answered = @ + 1,
                        ![p].headers = [status |-> res.status, setCookie |-> res.setCookie,
                                        authToken |-> res.authToken],
                        ![p].response = res.body]
    /\ UNCHANGED <<validationRequest, otpPending>>
    /\ UNCHANGED <<kpVars, tokenRequests, server>>

\* fetch() rejects (no network, connection reset): the call rejects.
FetchReject(p) ==
    /\ proc[p].pc = "fetch"
    /\ proc' = [proc EXCEPT ![p] = Throw(proc[p], "FetchError")]
    /\ UNCHANGED <<session, validationRequest, otpPending>>
    /\ UNCHANGED <<kpVars, tokenRequests, server>>

\* res.json() rejects: the response body is no JSON.
JsonReject(p) ==
    /\ proc[p].pc = "body"
    /\ proc[p].response = NotJson
    /\ proc' = [proc EXCEPT ![p] = Throw(proc[p], "SyntaxError")]
    /\ UNCHANGED <<session, validationRequest, otpPending>>
    /\ UNCHANGED <<kpVars, tokenRequests, server>>

\* --- the call resumes with the body of the response -----------------------
Resumes(p, kind, step) ==
    /\ proc[p].pc = "body"
    /\ proc[p].response # NotJson
    /\ proc[p].kind = kind
    /\ proc[p].step = step

\* new PasswordKeypad(buffer, m).getClicksPositions(missing.pinPositions,
\* this.password).  Jimp.read rejects what is no image, and the loop over an
\* undefined pinPositions throws.
NumClicks(missing) ==
    IF "pinPositions" \in DOMAIN missing THEN Len(missing.pinPositions) ELSE 0
ClicksFor(buffer, m, missing, draws) ==
    IF ~buffer.png \/ "pinPositions" \notin DOMAIN missing
    THEN [threw |-> TRUE, clicks |-> <<>>]
    ELSE getClicksPositions(buffer.cells, m, missing.pinPositions, Password, draws)

ConnectSkipsKeypadQuery(p) ==
    /\ Resumes(p, "connect", "login/cif?v2=true")
    /\ LET loginResult == proc[p].response
       IN  session' = [session EXCEPT !.regieId = GetProp(loginResult, "regieId")]
    /\ proc' = [proc EXCEPT ![p] =
           getKeypadImageBuffer([proc[p] EXCEPT !.keypad = [pinPositions |-> <<1, 3>>]])]
    /\ UNCHANGED <<validationRequest, otpPending>>
    /\ UNCHANGED <<kpVars, tokenRequests, server>>

\* connect, after loginWithCustomerIdAndBirthdate
ConnectAfterLogin(p) ==
    /\ Resumes(p, "connect", "login/cif?v2=true")
    /\ LET loginResult == proc[p].response
       IN  session' = [session EXCEPT !.regieId = GetProp(loginResult, "regieId")]
    /\ proc' = [proc EXCEPT ![p] = getMissingPasswordDigitsPositions(proc[p])]
    /\ UNCHANGED <<validationRequest, otpPending>>
    /\ UNCHANGED <<kpVars, tokenRequests, server>>

ConnectAfterKeypad(p) ==
    /\ Resumes(p, "connect", "login/keypad?v2=true")
    /\ LET missingPasswordDigitsPositions == proc[p].response
       IN  proc' = [proc EXCEPT ![p] =
             getKeypadImageBuffer([proc[p] EXCEPT !.keypad = missingPasswordDigitsPositions])]
    /\ UNCHANGED <<session, validationRequest, otpPending>>
    /\ UNCHANGED <<kpVars, tokenRequests, server>>

ConnectAfterImage(p) ==
    /\ Resumes(p, "connect", LoginImagePath)
    /\ \E draws \in [1..NumClicks(proc[p].keypad) -> FlowDrawPairs] :
         LET keypadImageBuffer == proc[p].response
             r == ClicksFor(keypadImageBuffer, LoginMultiplier, proc[p].keypad, draws)
         IN  proc' = [proc EXCEPT ![p] =
                 IF r.threw THEN Throw(proc[p], "TypeError")
                 ELSE postLoginPinCode(proc[p], r.clicks)]
    /\ UNCHANGED <<session, validationRequest, otpPending>>
    /\ UNCHANGED <<kpVars, tokenRequests, server>>

ConnectAfterPin(p) ==
    /\ Resumes(p, "connect", "login/sca/pin")
    /\ proc' = [proc EXCEPT ![p] = getSession(proc[p])]
    /\ UNCHANGED <<session, validationRequest, otpPending>>
    /\ UNCHANGED <<kpVars, tokenRequests, server>>

ConnectAfterSession(p) ==
    /\ Resumes(p, "connect", "session")
    /\ proc' = [proc EXCEPT ![p] = Return(proc[p], proc[p].response)]
    /\ UNCHANGED <<session, validationRequest, otpPending>>
    /\ UNCHANGED <<kpVars, tokenRequests, server>>

\* makeTransfer, after validateNewTransfer
MakeTransferAfterValidate(p) ==
    /\ Resumes(p, "makeTransfer", "transfers/v3/new/validate")
    /\ LET initiatedTransfer == proc[p].response
           executionDate == GetProp(initiatedTransfer, "executionSuggestedDate")
           transferRequest == TransferRequest(proc[p].args, executionDate)
       IN  /\ validationRequest' =
                  [validationRequest EXCEPT !.transactionRequest = transferRequest]
           /\ proc' = [proc EXCEPT ![p] =
                  getMissingPasswordDigitsPositionsSensitiveOperationAction(
                      [proc[p] EXCEPT !.request = transferRequest], proc[p].action)]
    /\ UNCHANGED <<session, otpPending>>
    /\ UNCHANGED <<kpVars, tokenRequests, server>>

NeverAnError(externalAccountRequest) == FALSE

\* if (externalAccountRequest.error)
HasError(externalAccountRequest) == Truthy(GetProp(externalAccountRequest, "error"))

AddNewBeneficiaryClearsOnError(p) ==
    /\ Resumes(p, "addNewBeneficiary", "externalAccounts/add/validateRequest")
    /\ LET externalAccountRequest == proc[p].response
       IN  IF HasError(externalAccountRequest)
           THEN /\ proc' = [proc EXCEPT ![p] = Return(proc[p], externalAccountRequest)]
                /\ validationRequest' =
                      [validationRequest EXCEPT !.externalAccountsRequest = Null]
           ELSE /\ validationRequest' =
                      [validationRequest EXCEPT
                          !.externalAccountsRequest = externalAccountRequest]
                /\ proc' = [proc EXCEPT ![p] =
                      toggleScaStatus([proc[p] EXCEPT !.request = externalAccountRequest],
                                      proc[p].action)]
    /\ UNCHANGED <<session, otpPending>>
    /\ UNCHANGED <<kpVars, tokenRequests, server>>

\* addNewBeneficiary, after addExternalAccountRequest
AddNewBeneficiaryAfterValidate(p) ==
    /\ Resumes(p, "addNewBeneficiary", "externalAccounts/add/validateRequest")
    /\ LET externalAccountRequest == proc[p].response
       IN  IF HasError(externalAccountRequest)
           THEN /\ proc' = [proc EXCEPT ![p] = Return(proc[p], externalAccountRequest)]
                /\ UNCHANGED validationRequest
           ELSE /\ validationRequest' =
                      [validationRequest EXCEPT
                          !.externalAccountsRequest = externalAccountRequest]
                /\ proc' = [proc EXCEPT ![p] =
                      toggleScaStatus([proc[p] EXCEPT !.request = externalAccountRequest],
                                      proc[p].action)]
    /\ UNCHANGED <<session, otpPending>>
    /\ UNCHANGED <<kpVars, tokenRequests, server>>

AddNewBeneficiaryAfterToggle(p) ==
    /\ Resumes(p, "addNewBeneficiary",
               "toggle/sca/status?action=" \o SensitiveOperationAction.ADD_TRANSFER_BENEFICIARY)
    /\ proc' = [proc EXCEPT ![p] =
           getMissingPasswordDigitsPositionsSensitiveOperationAction(proc[p], proc[p].action)]
    /\ UNCHANGED <<session, validationRequest, otpPending>>
    /\ UNCHANGED <<kpVars, tokenRequests, server>>

\* The part accessMoreTransactions, makeTransfer and addNewBeneficiary have in
\* common, from sca/keyPad on.
ScaFlows == {"accessMoreTransactions", "makeTransfer", "addNewBeneficiary"}

ScaResumes(p, step) ==
    /\ proc[p].pc = "body"
    /\ proc[p].response # NotJson
    /\ proc[p].kind \in ScaFlows
    /\ proc[p].step = step

ScaAfterKeyPad(p) ==
    /\ ScaResumes(p, "sca/keyPad")
    /\ LET missingPasswordDigitsPositions == proc[p].response
       IN  proc' = [proc EXCEPT ![p] =
             getKeypadImageBufferSensitiveOperationAction(
                 [proc[p] EXCEPT !.keypad = missingPasswordDigitsPositions])]
    /\ UNCHANGED <<session, validationRequest, otpPending>>
    /\ UNCHANGED <<kpVars, tokenRequests, server>>

\* The request each flow hands to validatePinSensitiveOperationAction:
\* accessMoreTransactions passes none.
ValidatePinArgument(pr) ==
    IF pr.kind = "accessMoreTransactions" THEN Undefined ELSE pr.request

ScaAfterImage(p) ==
    /\ ScaResumes(p, ScaImagePath)
    /\ \E draws \in [1..NumClicks(proc[p].keypad) -> FlowDrawPairs] :
         LET keypadImageBuffer == proc[p].response
             r == ClicksFor(keypadImageBuffer, ScaMultiplier, proc[p].keypad, draws)
         IN  proc' = [proc EXCEPT ![p] =
                 IF r.threw THEN Throw(proc[p], "TypeError")
                 ELSE validatePinSensitiveOperationAction(
                          proc[p], r.clicks, proc[p].action, ValidatePinArgument(proc[p]))]
    /\ UNCHANGED <<session, validationRequest, otpPending>>
    /\ UNCHANGED <<kpVars, tokenRequests, server>>

ScaAfterValidatePin(p) ==
    /\ ScaResumes(p, "sca/validatePin")
    /\ LET validatePin == proc[p].response
       IN  proc' = [proc EXCEPT ![p] =
             getSensitiveOperationOneTimePasswordChannels(
                 [proc[p] EXCEPT !.validatePin = validatePin], proc[p].action)]
    /\ UNCHANGED <<session, validationRequest, otpPending>>
    /\ UNCHANGED <<kpVars, tokenRequests, server>>

LastSmsChannel(channels) ==
    IF \E i \in 1..Len(channels) : channels[i].type = "SMS_MOBILE"
    THEN channels[CHOOSE i \in 1..Len(channels) :
                      /\ channels[i].type = "SMS_MOBILE"
                      /\ \A j \in (i + 1)..Len(channels) : channels[j].type # "SMS_MOBILE"]
    ELSE Undefined

\* oneTimePasswordChannels.find(channel => channel.type === "SMS_MOBILE")
FindSmsChannel(channels) ==
    IF \E i \in 1..Len(channels) : channels[i].type = "SMS_MOBILE"
    THEN channels[CHOOSE i \in 1..Len(channels) :
                      /\ channels[i].type = "SMS_MOBILE"
                      /\ \A j \in 1..(i - 1) : channels[j].type # "SMS_MOBILE"]
    ELSE Undefined

FixedSecretCode(pr) == Str("secret1")

\* validatePin.secretCode
SecretCodeOf(pr) == GetProp(pr.validatePin, "secretCode")

\* The request each flow hands to sendOneTimePassword: none of them passes one.
SendOtpArgument(pr) == Undefined

\* When the body is no array it has no find; when no channel matches, reading
\* otpSmsChannel.phone throws.
ScaAfterChannels(p) ==
    /\ ScaResumes(p, "sensitiveoperation/" \o proc[p].action \o "/otpChannels")
    /\ LET oneTimePasswordChannels == proc[p].response
           otpSmsChannel ==
               IF IsArray(oneTimePasswordChannels)
               THEN FindSmsChannel(oneTimePasswordChannels.array)
               ELSE Undefined
           pr == [proc[p] EXCEPT !.channels = oneTimePasswordChannels]
       IN  proc' = [proc EXCEPT ![p] =
               IF ~IsArray(oneTimePasswordChannels) \/ otpSmsChannel = Undefined
               THEN Throw(pr, "TypeError")
               ELSE sendOneTimePassword(
                        pr, pr.action, SecretCodeOf(pr),
                        otpSmsChannel.phone, otpSmsChannel.type, SendOtpArgument(pr))]
    /\ UNCHANGED <<session, validationRequest, otpPending>>
    /\ UNCHANGED <<kpVars, tokenRequests, server>>

\* The flow returns what sca/sendOtp answered.  An acknowledged OTP leaves the
\* server waiting for the confirmation of the operation whose context the flow
\* sent with sca/validatePin.
ScaAfterSendOtp(p) ==
    /\ ScaResumes(p, "sca/sendOtp")
    /\ LET body == proc[p].response
       IN  /\ proc' = [proc EXCEPT ![p] = Return(proc[p], body)]
           /\ otpPending' =
                  IF "acknowledged" \in DOMAIN body /\ body.acknowledged
                  THEN [action |-> proc[p].action,
                        context |-> ContextOf(RequestsTo(proc[p], "sca/validatePin")[1].body)]
                  ELSE otpPending
    /\ UNCHANGED <<session, validationRequest>>
    /\ UNCHANGED <<kpVars, tokenRequests, server>>

\* res.json(await ingApi.confirmOneTimePassword(...)): the confirmation settles
\* the pending operation.
SmsValidationAfterConfirm(p) ==
    /\ Resumes(p, "smsValidation", "sca/confirmOtp")
    /\ proc' = [proc EXCEPT ![p] = Return(proc[p], proc[p].response)]
    /\ otpPending' = NoOperation
    /\ UNCHANGED <<session, validationRequest>>
    /\ UNCHANGED <<kpVars, tokenRequests, server>>

DirectCalls ==
    {"validatePin", "sendOneTimePassword", "confirmOneTimePassword",
     "loginWithRegieIdAndBirthdate"}

DirectCallReturns(p) ==
    /\ proc[p].pc = "body"
    /\ proc[p].response # NotJson
    /\ proc[p].kind \in DirectCalls
    /\ proc' = [proc EXCEPT ![p] = Return(proc[p], proc[p].response)]
    /\ UNCHANGED <<session, validationRequest, otpPending>>
    /\ UNCHANGED <<kpVars, tokenRequests, server>>

\* The caller takes the result, or the exception, of its call.
Settle(p) ==
    /\ proc[p].pc \in {"returned", "threw"}
    /\ proc' = [proc EXCEPT ![p] = IdleProc]
    /\ UNCHANGED <<session, validationRequest, otpPending>>
    /\ UNCHANGED <<kpVars, tokenRequests, server>>

Step(p) ==
    \/ CallConnect(p)
    \/ CallAccessMoreTransactions(p)
    \/ CallMakeTransfer(p)
    \/ CallAddNewBeneficiary(p)
    \/ PostValidationSms(p)
    \/ CallValidatePin(p)
    \/ CallSendOneTimePassword(p)
    \/ CallConfirmOneTimePassword(p)
    \/ CallLoginWithRegieIdAndBirthdate(p)
    \/ FetchResolve(p)
    \/ FetchReject(p)
    \/ JsonReject(p)
    \/ ConnectAfterLogin(p)
    \/ ConnectAfterKeypad(p)
    \/ ConnectAfterImage(p)
    \/ ConnectAfterPin(p)
    \/ ConnectAfterSession(p)
    \/ MakeTransferAfterValidate(p)
    \/ AddNewBeneficiaryAfterValidate(p)
    \/ AddNewBeneficiaryAfterToggle(p)
    \/ ScaAfterKeyPad(p)
    \/ ScaAfterImage(p)
    \/ ScaAfterValidatePin(p)
    \/ ScaAfterChannels(p)
    \/ ScaAfterSendOtp(p)
    \/ SmsValidationAfterConfirm(p)
    \/ DirectCallReturns(p)
    \/ Settle(p)

(***************************************************************************)
(* IngApi: plain calls and the Save Invest API                             *)
(***************************************************************************)
\* The count of token requests stops at this value.
MaxTokenRequests == 2

\* callIngSaveInvestApi from its fetch(...) on: the request leaves with the
\* cookie and the Save Invest token of sess.
SaveInvestFetch(pr, sess, path) ==
    Fetch(pr, path, "GET", NoBody,
          [ContentType |-> "application/json", Cookie |-> sess.cookie,
           Authorization |-> sess.saveInvestToken])

\* getAccounts() up to its await
CallGetAccounts(p) ==
    /\ proc[p].pc = "idle"
    /\ proc' = [proc EXCEPT ![p] =
           callIngSecureApi(NewCall("getAccounts", "none"), "accounts", "GET", NoBody)]
    /\ UNCHANGED <<session, validationRequest, otpPending, tokenRequests>>
    /\ UNCHANGED <<kpVars, server>>

\* getKeypadImageBuffer() called on its own
CallGetKeypadImageBuffer(p) ==
    /\ proc[p].pc = "idle"
    /\ proc' = [proc EXCEPT ![p] =
           getKeypadImageBuffer(NewCall("getKeypadImageBuffer", "none"))]
    /\ UNCHANGED <<session, validationRequest, otpPending, tokenRequests>>
    /\ UNCHANGED <<kpVars, server>>

\* getKeypadImageBufferSensitiveOperationAction(keyPadUrl) called on its own
CallGetKeypadImageBufferSensitiveOperationAction(p) ==
    /\ proc[p].pc = "idle"
    /\ proc' = [proc EXCEPT ![p] =
           getKeypadImageBufferSensitiveOperationAction(
               NewCall("getKeypadImageBufferSensitiveOperationAction", "none"))]
    /\ UNCHANGED <<session, validationRequest, otpPending, tokenRequests>>
    /\ UNCHANGED <<kpVars, server>>

\* generateSaveInvestApiToken() called on its own, up to its await
CallGenerateSaveInvestApiToken(p) ==
    /\ proc[p].pc = "idle"
    /\ proc' = [proc EXCEPT ![p] =
           callIngSecureApi(NewCall("generateSaveInvestApiToken", "none"),
                            "saveInvest/token/generate", "GET", NoBody)]
    /\ UNCHANGED <<session, validationRequest, otpPending, tokenRequests>>
    /\ UNCHANGED <<kpVars, server>>

\* getLifeInsuranceMandates() up to its first await: callIngSaveInvestApi asks
\* for a token when the session holds none, and else fetches at once.
CallGetLifeInsuranceMandates(p) ==
    /\ proc[p].pc = "idle"
    /\ IF ~Truthy(session.saveInvestToken)
       THEN /\ proc' = [proc EXCEPT ![p] =
                   callIngSecureApi(NewCall("getLifeInsuranceMandates", "none"),
                                    "saveInvest/token/generate", "GET", NoBody)]
            /\ tokenRequests' = IF tokenRequests < MaxTokenRequests
                                THEN tokenRequests + 1 ELSE tokenRequests
       ELSE /\ proc' = [proc EXCEPT ![p] =
                   SaveInvestFetch(NewCall("getLifeInsuranceMandates", "none"),
                                   session, "lifeinsurance/mandate")]
            /\ UNCHANGED tokenRequests
    /\ UNCHANGED <<session, validationRequest, otpPending>>
    /\ UNCHANGED <<kpVars, server>>

SimpleCalls ==
    {"getAccounts", "getKeypadImageBuffer", "getKeypadImageBufferSensitiveOperationAction"}

\* return await this.callIngSecureApi('accounts'); return await res.buffer();
SimpleCallReturns(p) ==
    /\ proc[p].pc = "body"
    /\ proc[p].response # NotJson
    /\ proc[p].kind \in SimpleCalls
    /\ proc' = [proc EXCEPT ![p] = Return(proc[p], proc[p].response)]
    /\ UNCHANGED <<session, validationRequest, otpPending, tokenRequests>>
    /\ UNCHANGED <<kpVars, server>>

\* generateSaveInvestApiToken after its await: the token is stored, whatever
\* the answer holds.
GenerateTokenReturns(p) ==
    /\ Resumes(p, "generateSaveInvestApiToken", "saveInvest/token/generate")
    /\ session' = [session EXCEPT !.saveInvestToken = GetProp(proc[p].response, "token")]
    /\ proc' = [proc EXCEPT ![p] = Return(proc[p], proc[p].response)]
    /\ UNCHANGED <<validationRequest, otpPending, tokenRequests>>
    /\ UNCHANGED <<kpVars, server>>

\* callIngSaveInvestApi after await this.generateSaveInvestApiToken()
SaveInvestAfterGenerate(p) ==
    /\ Resumes(p, "getLifeInsuranceMandates", "saveInvest/token/generate")
    /\ session' = [session EXCEPT !.saveInvestToken = GetProp(proc[p].response, "token")]
    /\ proc' = [proc EXCEPT ![p] =
           SaveInvestFetch(proc[p], session', "lifeinsurance/mandate")]
    /\ UNCHANGED <<validationRequest, otpPending, tokenRequests>>
    /\ UNCHANGED <<kpVars, server>>

\* callIngSaveInvestApi: return await res.json()
SaveInvestReturns(p) ==
    /\ Resumes(p, "getLifeInsuranceMandates", "lifeinsurance/mandate")
    /\ proc' = [proc EXCEPT ![p] = Return(proc[p], proc[p].response)]
    /\ UNCHANGED <<session, validationRequest, otpPending, tokenRequests>>
    /\ UNCHANGED <<kpVars, server>>

\* The keypad variables are not used by the calls.
KeypadUnused ==
    /\ kpPc = "unused"
    /\ kpImage = RotatedKeypad(0)
    /\ kpMult = LoginMultiplier
    /\ kpPassword = Password
    /\ kpMissing = <<>>
    /\ kpResult = NoResult

Init == KeypadUnused /\ ApiInit

Next == Step("main")

Spec == Init /\ [][Next]_vars

(***************************************************************************)
(* SpecSession: one caller making plain calls and Save Invest calls, one   *)
(* after the other.                                                        *)
(***************************************************************************)
SessionStep(p) ==
    \/ CallGetAccounts(p)
    \/ CallGetKeypadImageBuffer(p)
    \/ CallGetKeypadImageBufferSensitiveOperationAction(p)
    \/ CallGenerateSaveInvestApiToken(p)
    \/ CallGetLifeInsuranceMandates(p)
    \/ FetchResolve(p)
    \/ FetchReject(p)
    \/ JsonReject(p)
    \/ SimpleCallReturns(p)
    \/ GenerateTokenReturns(p)
    \/ SaveInvestAfterGenerate(p)
    \/ SaveInvestReturns(p)
    \/ Settle(p)

SessionNext == SessionStep("main")

SpecSession == Init /\ [][SessionNext]_vars

(***************************************************************************)
(* SpecSaveInvest: two callers of the Save Invest API whose calls may      *)
(* overlap, as under Promise.all.                                          *)
(***************************************************************************)
SaveInvestStep(p) ==
    \/ CallGetLifeInsuranceMandates(p)
    \/ FetchResolve(p)
    \/ FetchReject(p)
    \/ JsonReject(p)
    \/ SaveInvestAfterGenerate(p)
    \/ SaveInvestReturns(p)
    \/ Settle(p)

SaveInvestNext == \E p \in Procs : SaveInvestStep(p)

SpecSaveInvest == Init /\ [][SaveInvestNext]_vars

(***************************************************************************)
(* SpecOverlap: two callers of getAccounts whose requests may be in flight *)
(* together.  The server answers each request with a fresh auth token, and *)
(* the responses reach the instance in any order.                          *)
(***************************************************************************)
\* The server stops issuing tokens after this many.
MaxIssued == 3

\* The server answers the request of call p: the response leaves with the
\* next auth token.
ServerAnswers(p) ==
    /\ proc[p].pc = "fetch"
    /\ server.wire[p] = Null
    /\ server.issued < MaxIssued
    /\ server' = [issued |-> server.issued + 1,
                  wire |-> [server.wire EXCEPT ![p] = IssuedToken(server.issued + 1)]]
    /\ UNCHANGED <<session, validationRequest, proc, otpPending, tokenRequests>>
    /\ UNCHANGED <<kpPc, kpImage, kpMult, kpPassword, kpMissing, kpResult>>

\* fetch() of call p resolves with the response on its way: callIngSecureApi
\* takes over its Ingdf-Auth-Token header.
ResponseArrives(p) ==
    /\ proc[p].pc = "fetch"
    /\ server.wire[p] # Null
    /\ \E body \in AccountsBodies :
         /\ session' = ApplyHeaders(session, Null, server.wire[p])
         /\ proc' = [proc EXCEPT
                        ![p].pc = "body", ![p].answered = @ + 1,
                        ![p].headers = [status |-> 200, setCookie |-> Null,
                                        authToken |-> server.wire[p]],
                        ![p].response = body]
    /\ server' = [server EXCEPT !.wire[p] = Null]
    /\ UNCHANGED <<validationRequest, otpPending, tokenRequests>>
    /\ UNCHANGED <<kpPc, kpImage, kpMult, kpPassword, kpMissing, kpResult>>

OverlapStep(p) ==
    \/ CallGetAccounts(p)
    \/ ServerAnswers(p)
    \/ ResponseArrives(p)
    \/ SimpleCallReturns(p)
    \/ Settle(p)

OverlapNext == \E p \in Procs : OverlapStep(p)

SpecOverlap == Init /\ [][OverlapNext]_vars

(***************************************************************************)
(* SpecShell: app.js serving HTTP requests on its one IngApi instance.     *)
(* Express runs the middleware, then the first route registered whose      *)
(* method and pattern match; a handler that answers without calling next() *)
(* ends the dispatch.                                                      *)
(***************************************************************************)
Lit(s) == [lit |-> s]
Param(s) == [param |-> s]

\* The routes of app.js in the order of their registration.
Routes ==
    << [method |-> "POST", pattern |-> <<Lit("validation"), Lit("sms")>>,
        handler |-> "smsValidation"],
       [method |-> "GET", pattern |-> <<Lit("accounts")>>, handler |-> "getAccounts"],
       [method |-> "GET", pattern |-> <<Lit("accounts"), Param("accountId")>>,
        handler |-> "getAccountById"],
       [method |-> "GET", pattern |-> <<Lit("accounts"), Lit("debit")>>,
        handler |-> "getTransfersDebitAccounts"],
       [method |-> "GET",
        pattern |-> <<Lit("account"), Param("accountId"), Lit("externalAccount")>>,
        handler |-> "getCreditAccounts"],
       [method |-> "GET",
        pattern |-> <<Lit("account"), Param("accountId"), Lit("bankRecord")>>,
        handler |-> "getAccountBankRecord"],
       [method |-> "POST",
        pattern |-> <<Lit("account"), Param("accountId"), Lit("transfer")>>,
        handler |-> "makeTransfer"] >>

\* A pattern matches a path, given by its segments, when they have the same
\* length and each literal segment is equal; a parameter takes any segment.
Matches(route, req) ==
    /\ route.method = req.method
    /\ Len(route.pattern) = Len(req.path)
    /\ \A i \in 1..Len(req.path) :
          "param" \in DOMAIN route.pattern[i] \/ route.pattern[i].lit = req.path[i]

\* The route Express hands the request to: the first one registered that
\* matches, 0 when none does.
RouteOf(req) ==
    IF \E i \in 1..Len(Routes) : Matches(Routes[i], req)
    THEN CHOOSE i \in 1..Len(Routes) :
             /\ Matches(Routes[i], req)
             /\ \A j \in 1..(i - 1) : ~Matches(Routes[j], req)
    ELSE 0

\* The HTTP requests tried.
HttpRequests ==
    {[method |-> "GET", path |-> <<"accounts">>],
     [method |-> "GET", path |-> <<"accounts", "debit">>],
     [method |-> "GET", path |-> <<"accounts", "account1">>],
     [method |-> "GET", path |-> <<"health">>]}

\* A request arrives: the middleware awaits ingApi.refreshSession().
HttpRequest(p) ==
    /\ proc[p].pc = "idle"
    /\ \E req \in HttpRequests :
         proc' = [proc EXCEPT ![p] =
                     [NewCall("shell", "none") EXCEPT !.pc = "middleware", !.args = req]]
    /\ UNCHANGED <<session, validationRequest, otpPending>>
    /\ UNCHANGED <<kpVars, tokenRequests, server>>

\* ingApi.refreshSession() rejects: next() is not reached and no handler runs.
RefreshSessionRejects(p) ==
    /\ proc[p].pc = "middleware"
    /\ proc' = [proc EXCEPT ![p] = Throw(proc[p], "TypeError")]
    /\ UNCHANGED <<session, validationRequest, otpPending>>
    /\ UNCHANGED <<kpVars, tokenRequests, server>>

\* next(): the request goes to its route, whose handler runs up to its await.
MiddlewareNext(p) ==
    /\ proc[p].pc = "middleware"
    /\ LET req == proc[p].args
           r == RouteOf(req)
           handler == IF r = 0 THEN "notFound" ELSE Routes[r].handler
           pr == [proc[p] EXCEPT !.action = handler]
       IN  proc' = [proc EXCEPT ![p] =
               CASE handler = "getAccounts" ->
                        callIngSecureApi(pr, "accounts", "GET", NoBody)
                 [] handler = "getAccountById" ->
                        callIngSecureApi(pr, "accounts/" \o req.path[2], "GET", NoBody)
                 [] handler = "getTransfersDebitAccounts" ->
                        callIngSecureApi(pr, "transfers/debitAccounts", "GET", NoBody)
                 [] OTHER -> Return(pr, Str("404"))]
    /\ UNCHANGED <<session, validationRequest, otpPending>>
    /\ UNCHANGED <<kpVars, tokenRequests, server>>

\* res.json(await ingApi....()): the handler answers with what the call gave.
HandlerResponds(p) ==
    /\ Resumes(p, "shell", proc[p].step)
    /\ proc' = [proc EXCEPT ![p] = Return(proc[p], proc[p].response)]
    /\ UNCHANGED <<session, validationRequest, otpPending>>
    /\ UNCHANGED <<kpVars, tokenRequests, server>>

ShellStep(p) ==
    \/ HttpRequest(p)
    \/ RefreshSessionRejects(p)
    \/ MiddlewareNext(p)
    \/ FetchResolve(p)
    \/ FetchReject(p)
    \/ JsonReject(p)
    \/ HandlerResponds(p)
    \/ Settle(p)

ShellNext == \E p \in Procs : ShellStep(p)

SpecShell == Init /\ [][ShellNext]_vars

(***************************************************************************)
(* SpecKeypad: getClicksPositions on bounded inputs.                       *)
(***************************************************************************)
\* Longest missingPasswordDigitsPositions tried.
MaxMissing == 2

KeypadImages ==
    {RotatedKeypad(k) : k \in {0, 3, 7}}
        \cup {DuplicateKeypad(3), BlankCellKeypad(3), TieKeypad, SwappedKeypad}

\* Strings as sequences of characters; the second one holds a character that
\* is no digit.
Passwords == { <<"8", "4", "7">>, <<"8", "x", "0">> }

\* 1-based positions, one of them past the end of the password.
Positions == 1..4

DrawPairs == {<<RandZero, RandMax>>, <<RandHalf, RandHalf>>, <<RandMax, RandZero>>}

SeqsUpTo(S, n) == UNION {[1..k -> S] : k \in 0..n}

KeypadInit ==
    /\ kpPc = "ready"
    /\ kpImage \in KeypadImages
    /\ kpMult \in Multipliers
    /\ kpPassword \in Passwords
    /\ kpMissing \in SeqsUpTo(Positions, MaxMissing)
    /\ kpResult = NoResult
    /\ ApiInit

\* await passwordKeypad.getClicksPositions(kpMissing, kpPassword)
CallGetClicksPositions ==
    /\ kpPc = "ready"
    /\ \E draws \in [1..Len(kpMissing) -> DrawPairs] :
           kpResult' = getClicksPositions(kpImage, kpMult, kpMissing, kpPassword, draws)
    /\ kpPc' = "called"
    /\ UNCHANGED <<kpImage, kpMult, kpPassword, kpMissing>>
    /\ UNCHANGED apiVars

KeypadNext == CallGetClicksPositions

SpecKeypad == KeypadInit /\ [][KeypadNext]_vars

(***************************************************************************)
(* Properties of the sensitive-operation flows and of connect, under Spec. *)
(***************************************************************************)
Paths(pr) == [i \in 1..Len(pr.reqs) |-> pr.reqs[i].path]
IsPrefix(s, t) == Len(s) <= Len(t) /\ SubSeq(t, 1, Len(s)) = s
ContextFields(body) == DOMAIN body \cap {"transactionRequest", "externalAccountsRequest"}

\* C1: in makeTransfer and addNewBeneficiary the body of sca/sendOtp carries
\* the same operation context as the body the run sent to sca/validatePin.
C1_SendOtpCarriesValidatePinContext ==
    \A p \in Procs :
        LET pr == proc[p]
            s  == RequestsTo(pr, "sca/sendOtp")
            v  == RequestsTo(pr, "sca/validatePin")
        IN  pr.kind \in {"makeTransfer", "addNewBeneficiary"} /\ s # <<>>
            => /\ v # <<>>
               /\ ContextOf(s[1].body) = ContextOf(v[1].body)

\* C2: when POST /validation/sms confirms the operation whose OTP was sent
\* last (EXTERNAL_TRANSFER or ADD_TRANSFER_BENEFICIARY), the body of
\* sca/confirmOtp carries the operation context that the flow sent with
\* sca/validatePin.
C2_ConfirmOtpCarriesFlowContext ==
    \A p \in Procs :
        LET pr == proc[p]
        IN  /\ pr.kind = "smsValidation"
            /\ pr.pc = "fetch"
            /\ pr.action \in {SensitiveOperationAction.EXTERNAL_TRANSFER,
                               SensitiveOperationAction.ADD_TRANSFER_BENEFICIARY}
            /\ otpPending # NoOperation
            /\ otpPending.action = pr.action
            => ContextOf(pr.reqs[1].body) = otpPending.context

\* The requests of a flow before its keypad challenge, and the challenge.
PreSteps(pr) ==
    IF pr.kind = "makeTransfer" THEN <<"transfers/v3/new/validate">>
    ELSE IF pr.kind = "addNewBeneficiary"
    THEN <<"externalAccounts/add/validateRequest",
           "toggle/sca/status?action=" \o pr.action>>
    ELSE <<>>
ScaSequence(pr) ==
    <<"sca/keyPad", ScaImagePath, "sca/validatePin",
      "sensitiveoperation/" \o pr.action \o "/otpChannels", "sca/sendOtp">>
\* The run returned from its last statement, not from the early return of
\* addNewBeneficiary.
ReachedEnd(pr) ==
    /\ pr.kind \in ScaFlows
    /\ pr.pc = "returned"
    /\ ~(pr.kind = "addNewBeneficiary" /\ Len(pr.reqs) = 1)

\* C3: a run of accessMoreTransactions, makeTransfer or addNewBeneficiary
\* issues sca/keyPad, the keypad image, sca/validatePin, otpChannels and
\* sca/sendOtp in this order and nothing else after its own first steps, at
\* most the last request issued is unanswered, the secretCode of sca/sendOtp
\* is the one the run's sca/validatePin answered, and a run that reaches its
\* end has issued all five and no sca/confirmOtp.
C3_ScaFlowOrder ==
    \A p \in Procs :
        LET pr == proc[p]
            s  == RequestsTo(pr, "sca/sendOtp")
        IN  pr.kind \in ScaFlows
            => /\ IsPrefix(Paths(pr), PreSteps(pr) \o ScaSequence(pr))
               /\ pr.answered >= Len(pr.reqs) - 1
               /\ s # <<>> => s[1].body.secretCode = GetProp(pr.validatePin, "secretCode")
               /\ ReachedEnd(pr)
                  => /\ Paths(pr) = PreSteps(pr) \o ScaSequence(pr)
                     /\ pr.answered = Len(pr.reqs)
                     /\ RequestsTo(pr, "sca/confirmOtp") = <<>>

C3_Witness ==
    \E p \in Procs :
        /\ ReachedEnd(proc[p])
        /\ proc[p].kind = "addNewBeneficiary"
        /\ GetProp(proc[p].validatePin, "secretCode") = Str("secret2")

ConnectSequence ==
    <<"login/cif?v2=true", "login/keypad?v2=true", LoginImagePath, "login/sca/pin",
      "session">>

\* C4: connect issues login/cif, login/keypad, keypad/newkeypad.png,
\* login/sca/pin and session in this order, at most the last request issued
\* is unanswered, and a connect that returns has issued all five and returns
\* the body of the session response.
C4_ConnectOrder ==
    \A p \in Procs :
        LET pr == proc[p]
        IN  pr.kind = "connect"
            => /\ IsPrefix(Paths(pr), ConnectSequence)
               /\ pr.answered >= Len(pr.reqs) - 1
               /\ pr.pc = "returned"
                  => /\ Paths(pr) = ConnectSequence
                     /\ pr.answered = Len(pr.reqs)
                     /\ pr.result = pr.response
                     /\ pr.result \in {r.body : r \in ResponsesFor("session")}

C4_Witness ==
    \E p \in Procs :
        /\ proc[p].kind = "connect"
        /\ proc[p].pc = "returned"
        /\ proc[p].result = [authenticated |-> TRUE]

\* C5: no sca/sendOtp request is issued without a secretCode.
C5_NoSendOtpWithoutSecretCode ==
    \A p \in Procs :
        \A i \in 1..Len(proc[p].reqs) :
            proc[p].reqs[i].path = "sca/sendOtp"
            => Truthy(proc[p].reqs[i].body.secretCode)

\* C6: the bodies of sca/validatePin, sca/sendOtp and sca/confirmOtp carry at
\* most one context field, transactionRequest only for EXTERNAL_TRANSFER and
\* externalAccountsRequest only for ADD_TRANSFER_BENEFICIARY, whatever request
\* the caller passed.
C6_ContextFieldMatchesAction ==
    \A p \in Procs :
        \A i \in 1..Len(proc[p].reqs) :
            LET r == proc[p].reqs[i]
            IN  r.path \in {"sca/validatePin", "sca/sendOtp", "sca/confirmOtp"}
                => ContextFields(r.body) \subseteq
                     (IF r.body.sensitiveOperationAction =
                            SensitiveOperationAction.EXTERNAL_TRANSFER
                      THEN {"transactionRequest"}
                      ELSE IF r.body.sensitiveOperationAction =
                                SensitiveOperationAction.ADD_TRANSFER_BENEFICIARY
                      THEN {"externalAccountsRequest"}
                      ELSE {})

C6_Witness ==
    \E p \in Procs :
        /\ proc[p].kind = "validatePin"
        /\ proc[p].action = SensitiveOperationAction.DISPLAY_TRANSACTIONS
        /\ Truthy(proc[p].request)
        /\ proc[p].pc = "fetch"
        /\ ContextFields(proc[p].reqs[1].body) = {}

\* C7: when the answer to externalAccounts/add/validateRequest is a business
\* error payload, the step of addNewBeneficiary that reads it returns the
\* payload unchanged and issues no request.
C7_BusinessErrorReturnedUnchanged ==
    [][\A p \in Procs :
          /\ proc[p].kind = "addNewBeneficiary"
          /\ proc[p].pc = "body"
          /\ proc[p].step = "externalAccounts/add/validateRequest"
          /\ Truthy(GetProp(proc[p].response, "error"))
          /\ proc'[p] # proc[p]
          => /\ proc'[p].pc = "returned"
             /\ proc'[p].result = proc[p].response
             /\ proc'[p].reqs = proc[p].reqs
             /\ Len(proc[p].reqs) = 1]_vars

C7_Witness ==
    \E p \in Procs :
        /\ proc[p].kind = "addNewBeneficiary"
        /\ proc[p].pc = "returned"
        /\ Len(proc[p].reqs) = 1
        /\ proc[p].result = ErrorPayload("EXTERNAL_ACCOUNT.IBAN_BAD_FORMAT")

\* Index of the first SMS_MOBILE entry of a list, 0 when it has none.
FirstSmsIndex(l) ==
    LET idx == {i \in 1..Len(l) : l[i].type = "SMS_MOBILE"}
    IN  IF idx = {} THEN 0 ELSE CHOOSE i \in idx : \A j \in idx : i <= j

\* C8: once a flow has read the list of OTP channels, sca/sendOtp goes to the
\* first SMS_MOBILE entry of the list; when the list has no such entry the
\* flow has thrown and no sca/sendOtp was issued.
C8_FirstSmsChannelUsed ==
    \A p \in Procs :
        LET pr == proc[p]
            s  == RequestsTo(pr, "sca/sendOtp")
        IN  pr.kind \in ScaFlows /\ pr.channels # Null /\ IsArray(pr.channels)
            => LET l == pr.channels.array
                   i == FirstSmsIndex(l)
               IN  IF i = 0
                   THEN pr.pc = "threw" /\ s = <<>>
                   ELSE /\ Len(s) = 1
                        /\ s[1].body.channelValue = l[i].phone
                        /\ s[1].body.channelType = "SMS_MOBILE"

C8_Witness ==
    \E p \in Procs :
        /\ proc[p].kind \in ScaFlows
        /\ proc[p].channels # Null
        /\ IsArray(proc[p].channels)
        /\ Len(proc[p].channels.array) = 2
        /\ \A i \in 1..2 : proc[p].channels.array[i].type = "SMS_MOBILE"
        /\ RequestsTo(proc[p], "sca/sendOtp") # <<>>

(***************************************************************************)
(* Properties of getClicksPositions, under SpecKeypad.                     *)
(***************************************************************************)
IsPermutation(digits) == \A d \in Cells : \E c \in Cells : digits[c] = d

\* The positions lie within the password and name digits of it.
WithinPassword ==
    \A i \in 1..Len(kpMissing) :
        /\ kpMissing[i] \in 1..Len(kpPassword)
        /\ kpPassword[kpMissing[i]] \in DigitChars

\* The cell aimed at for the i-th missing position.
TargetCell(i) ==
    indexOf(getDigits(kpImage), parseInt(CharAt(kpPassword, kpMissing[i] - 1)))

\* cell.x * m <= x <= (cell.x + cell.width) * m, and the same for y
InCellClosed(click, cell, m) ==
    LET c == digitsPositions[cell]
    IN  /\ FLeq(FromInt(c.x * m), click[1])
        /\ FLeq(click[1], FromInt((c.x + c.width) * m))
        /\ FLeq(FromInt(c.y * m), click[2])
        /\ FLeq(click[2], FromInt((c.y + c.height) * m))

\* cell.x * m <= x < (cell.x + cell.width) * m, and the same for y
InCellHalfOpen(click, cell, m) ==
    LET c == digitsPositions[cell]
    IN  /\ FLeq(FromInt(c.x * m), click[1])
        /\ FLess(click[1], FromInt((c.x + c.width) * m))
        /\ FLeq(FromInt(c.y * m), click[2])
        /\ FLess(click[2], FromInt((c.y + c.height) * m))

\* C9: when the recognised digits are a permutation of 0..9 and the n missing
\* positions lie within a password of digits, getClicksPositions returns n
\* coordinates and the i-th lies on the cell recognised as the digit at the
\* i-th missing position.
C9_OneClickPerMissingPosition ==
    kpPc = "called" /\ IsPermutation(getDigits(kpImage)) /\ WithinPassword
    => /\ ~kpResult.threw
       /\ Len(kpResult.clicks) = Len(kpMissing)
       /\ \A i \in 1..Len(kpMissing) :
             /\ getDigits(kpImage)[TargetCell(i)] = DigitOfChar(kpPassword[kpMissing[i]])
             /\ InCellClosed(kpResult.clicks[i], TargetCell(i), kpMult)

C9_Witness ==
    /\ kpPc = "called"
    /\ IsPermutation(getDigits(kpImage))
    /\ WithinPassword
    /\ Len(kpMissing) = 2
    /\ kpMissing[1] # kpMissing[2]
    /\ Len(kpResult.clicks) = 2

\* C10: every coordinate returned satisfies cell.x * m <= x < (cell.x +
\* cell.width) * m and cell.y * m <= y < (cell.y + cell.height) * m for the
\* cell it aims at.
C10_ClickStrictlyInsideCell ==
    kpPc = "called" /\ ~kpResult.threw
    => \A i \in 1..Len(kpResult.clicks) :
           InCellHalfOpen(kpResult.clicks[i], TargetCell(i), kpMult)

\* The digit the i-th missing position asks for, -1 when the position lies
\* outside the password or the character there is no digit.
RequestedDigit(password, missing, i) ==
    IF missing[i] \in 1..Len(password) /\ password[missing[i]] \in DigitChars
    THEN DigitOfChar(password[missing[i]])
    ELSE -1

\* C11: each click returned lies on a cell whose classified digit is the
\* password character at index p - 1, p being the 1-based missing position
\* the click stands for.
C11_ClickTargetsPasswordDigit ==
    kpPc = "called" /\ ~kpResult.threw
    => /\ Len(kpResult.clicks) = Len(kpMissing)
       /\ \A i \in 1..Len(kpMissing) :
             \E c \in Cells :
                 /\ getDigits(kpImage)[c] = RequestedDigit(kpPassword, kpMissing, i)
                 /\ InCellClosed(kpResult.clicks[i], c, kpMult)

C11_Witness ==
    /\ kpPc = "called"
    /\ kpPassword = <<"8", "4", "7">>
    /\ kpMissing = <<1, 3>>
    /\ kpImage = RotatedKeypad(3)
    /\ Len(kpResult.clicks) = 2

HasDuplicateDigit(digits) == \E a, b \in Cells : a # b /\ digits[a] = digits[b]

\* C12: when two cells are classified as the same digit, getClicksPositions
\* fails and returns no click coordinates.
C12_DuplicateDigitFails ==
    kpPc = "called" /\ HasDuplicateDigit(getDigits(kpImage))
    => kpResult.threw /\ kpResult.clicks = <<>>

\* C14: getDigits gives each cell a template of smallest difference, and the
\* lowest digit among the templates that share the smallest difference.
C14_SmallestDifferenceLowestDigit ==
    \A c \in Cells :
        LET d == getDigits(kpImage)[c]
        IN  \A t \in Cells :
                /\ kpImage[c][d] <= kpImage[c][t]
                /\ kpImage[c][t] = kpImage[c][d] => d <= t

C14_Witness ==
    /\ kpPc = "called"
    /\ \E c \in Cells : \E a, b \in Cells :
          /\ a < b
          /\ kpImage[c][a] = kpImage[c][b]
          /\ \A t \in Cells : kpImage[c][a] <= kpImage[c][t]
          /\ kpImage[c][a] < FullDifference
          /\ getDigits(kpImage)[c] = a

\* C15: when a cell differs from every template by 100%, the classification
\* is reported as an error: getClicksPositions does not return.
C15_UnmatchedCellIsAnError ==
    kpPc = "called" /\ (\E c \in Cells : kpImage[c] = BlankGlyph)
    => kpResult.threw

\* The image shows the ten unmodified templates, each in one cell.
IsTemplatePermutation(image) ==
    /\ \A c \in Cells : \E d \in Cells : image[c] = TemplateGlyph(d)
    /\ \A d \in Cells : \E c \in Cells : image[c] = TemplateGlyph(d)

\* C16: for a keypad showing a permutation of the ten unmodified templates,
\* getDigits gives each cell the digit of the template placed in it, and no
\* digit twice.
C16_TemplatesClassifiedAsThemselves ==
    IsTemplatePermutation(kpImage)
    => /\ \A c \in Cells : kpImage[c] = TemplateGlyph(getDigits(kpImage)[c])
       /\ ~HasDuplicateDigit(getDigits(kpImage))

C16_Witness ==
    /\ kpPc = "called"
    /\ kpImage = SwappedKeypad
    /\ getDigits(kpImage)[2] = 5
    /\ getDigits(kpImage)[5] = 2

\* The call reads a keypad image while a digit it was asked for is in no cell
\* of the classified keypad.
ReadsKeypadLackingDigit(pr) ==
    /\ pr.kind \in ScaFlows \cup {"connect"}
    /\ pr.pc = "body"
    /\ pr.step \in ImagePaths
    /\ pr.response.png
    /\ "pinPositions" \in DOMAIN pr.keypad
    /\ \E i \in 1..Len(pr.keypad.pinPositions) :
          \A c \in Cells :
              getDigits(pr.response.cells)[c]
                  # RequestedDigit(Password, pr.keypad.pinPositions, i)

\* C13: when a requested digit is absent from the classified keypad (the
\* position lies outside the password included), the step of connect or of a
\* sensitive-operation flow that computes the clicks throws and issues no
\* request: no pin is submitted.
C13_AbsentDigitIsFatal ==
    [][\A p \in Procs :
          ReadsKeypadLackingDigit(proc[p]) /\ proc'[p] # proc[p]
          => /\ proc'[p].pc = "threw"
             /\ proc'[p].reqs = proc[p].reqs
             /\ RequestsTo(proc[p], "login/sca/pin") = <<>>
             /\ RequestsTo(proc[p], "sca/validatePin") = <<>>]_vars

C13_Witness ==
    \E p \in Procs :
        /\ proc[p].kind = "connect"
        /\ proc[p].pc = "threw"
        /\ proc[p].step = LoginImagePath
        /\ proc[p].response # Null
        /\ proc[p].response = [png |-> TRUE, cells |-> RotatedKeypad(2)]
        /\ proc[p].keypad = [pinPositions |-> <<1, 4>>]

(***************************************************************************)
(* Properties of the session, under SpecSession and SpecSaveInvest.        *)
(***************************************************************************)
\* In this step the call of p receives the response to its last request.
Receives(p) == proc[p].pc = "fetch" /\ proc'[p].pc = "body"
\* The same, the request having gone through callIngSecureApi.
ReceivesSecure(p) == Receives(p) /\ proc[p].step \notin PlainFetchPaths

\* C17 as stated: after a callIngSecureApi response, cookie is the Set-Cookie
\* header if the response has one and is else unchanged, authToken likewise
\* with Ingdf-Auth-Token, and no other step changes either.
C17_PresentHeaderOverwrites ==
    [][/\ \A p \in Procs :
            ReceivesSecure(p)
            => LET h == proc'[p].headers
               IN  /\ session'.cookie =
                         IF h.setCookie # Null THEN h.setCookie ELSE session.cookie
                   /\ session'.authToken =
                         IF h.authToken # Null THEN h.authToken ELSE session.authToken
       /\ (\A p \in Procs : ~ReceivesSecure(p))
            => /\ session'.cookie = session.cookie
               /\ session'.authToken = session.authToken]_vars

\* C17, amended: after a callIngSecureApi response, cookie is the Set-Cookie
\* header if the response has one with a non-empty value and is else
\* unchanged, authToken likewise with Ingdf-Auth-Token; the new value replaces
\* the old one, and no other step changes either.
C17_NonEmptyHeaderOverwrites ==
    [][/\ \A p \in Procs :
            ReceivesSecure(p)
            => LET h == proc'[p].headers
               IN  /\ session'.cookie =
                         IF h.setCookie \notin {Null, Str("")}
                         THEN h.setCookie ELSE session.cookie
                   /\ session'.authToken =
                         IF h.authToken \notin {Null, Str("")}
                         THEN h.authToken ELSE session.authToken
       /\ (\A p \in Procs : ~ReceivesSecure(p))
            => /\ session'.cookie = session.cookie
               /\ session'.authToken = session.authToken]_vars

\* A response to accounts has replaced cookie1, which the request carried, by
\* cookie2.
C17_Witness ==
    \E p \in Procs :
        /\ proc[p].kind = "getAccounts"
        /\ proc[p].pc = "body"
        /\ proc[p].sent.Cookie = Str("cookie1")
        /\ proc[p].headers.setCookie = Str("cookie2")
        /\ session.cookie = Str("cookie2")

\* C18: saveInvestToken changes only in the step that reads the answer to
\* saveInvest/token/generate, where it becomes the token of that answer.
C18_OnlyGenerateWritesSaveInvestToken ==
    [][session'.saveInvestToken # session.saveInvestToken
       => \E p \in Procs :
              /\ proc[p].pc = "body"
              /\ proc[p].step = "saveInvest/token/generate"
              /\ proc'[p] # proc[p]
              /\ session'.saveInvestToken = GetProp(proc[p].response, "token")]_vars

C18_Witness ==
    /\ session.saveInvestToken = Str("bearer1")
    /\ session.authToken = Str("token1")
    /\ \E p \in Procs : proc[p].kind = "getAccounts" /\ proc[p].pc = "body"

\* C19: calls to the Save Invest API, overlapping ones included, request
\* saveInvest/token/generate once at most.
C19_TokenRequestedOnce == tokenRequests <= 1

\* C20: the response to every fetch, the keypad images and the Save Invest API
\* included, updates cookie and authToken from its headers.
C20_EveryResponseUpdatesSession ==
    [][\A p \in Procs :
          Receives(p)
          => LET h == proc'[p].headers
             IN  /\ session'.cookie =
                       IF Truthy(h.setCookie) THEN h.setCookie ELSE session.cookie
                 /\ session'.authToken =
                       IF Truthy(h.authToken) THEN h.authToken ELSE session.authToken]_vars

(***************************************************************************)
(* Properties of the requests and of the failures of a flow, under Spec    *)
(***************************************************************************)
\* The step in which call p hands a request to fetch().
Sends(p) == proc[p].pc # "fetch" /\ proc'[p].pc = "fetch"

\* The paths below https://m.ing.fr/secure/api-v1/.
OnSecureBase(path) == path \notin SaveInvestPaths

\* C21: every request to the authenticated API base carries the session's
\* cookie as it is when the request leaves and, when the session holds an
\* auth token at that time, the auth-token header with that token; the fetch
\* of the login keypad image is one of these requests.
C21_RequestCarriesCookieAndAuthToken ==
    [][\A p \in Procs :
          (Sends(p) /\ OnSecureBase(proc'[p].step))
          => LET sent == proc'[p].sent
             IN  /\ "Cookie" \in DOMAIN sent
                 /\ sent.Cookie = session'.cookie
                 /\ Truthy(session'.authToken)
                      => /\ "IngdfAuthToken" \in DOMAIN sent
                         /\ sent.IngdfAuthToken = session'.authToken]_vars

\* The flows made of several requests.
Flows == {"connect"} \cup ScaFlows

\* C22: a transport failure at a step of connect or of a sensitive-operation
\* flow (fetch rejects, or the response has a status outside 2xx) aborts the
\* flow with an error raised to the caller, and the flow sends no request
\* after it.
C22_TransportFailureAbortsFlow ==
    [][\A p \in Procs :
          proc[p].kind \in Flows
          => /\ (proc[p].pc = "fetch" /\ proc'[p].pc # "body")
                  => (proc'[p].pc = "threw" /\ proc'[p].reqs = proc[p].reqs)
             /\ (proc[p].pc = "body" /\ ~IsOk(proc[p].headers.status))
                  => (proc'[p].pc = "threw" /\ proc'[p].reqs = proc[p].reqs)
             /\ proc[p].pc = "threw" => proc'[p].pc = "idle"]_vars

\* The step of call p ends the call and sends no request.
EndsWithoutRequest(p) ==
    /\ proc'[p].pc \in {"returned", "threw"}
    /\ proc'[p].reqs = proc[p].reqs

\* C23: when login/cif answers with a business error payload, connect ends
\* with that error and requests neither login/keypad, nor the keypad image,
\* nor login/sca/pin, nor the session.
C23_LoginErrorStopsConnect ==
    [][\A p \in Procs :
          (/\ Resumes(p, "connect", "login/cif?v2=true")
           /\ IsOk(proc[p].headers.status)
           /\ HasError(proc[p].response))
          => /\ EndsWithoutRequest(p)
             /\ proc'[p].result \in {proc[p].response, GetProp(proc[p].response, "error")}]_vars

\* C24: when sca/validatePin answers with a business error payload or without
\* a secretCode, the flow ends with an error and requests neither the OTP
\* channels nor sca/sendOtp.
C24_ValidatePinErrorStopsFlow ==
    [][\A p \in Procs :
          (/\ ScaResumes(p, "sca/validatePin")
           /\ IsOk(proc[p].headers.status)
           /\ \/ HasError(proc[p].response)
              \/ ~Truthy(GetProp(proc[p].response, "secretCode")))
          => EndsWithoutRequest(p)]_vars

\* The field of validationRequest in which a flow stores its context.
StoredContext(kind) ==
    IF kind = "makeTransfer" THEN validationRequest.transactionRequest
    ELSE validationRequest.externalAccountsRequest

\* C25: once a makeTransfer or addNewBeneficiary flow has aborted without
\* having sent sca/sendOtp, validationRequest does not hold the context that
\* flow created.
C25_AbortedFlowLeavesNoContext ==
    \A p \in Procs :
        (/\ proc[p].kind \in {"makeTransfer", "addNewBeneficiary"}
         /\ proc[p].pc = "threw"
         /\ RequestsTo(proc[p], "sca/sendOtp") = <<>>
         /\ proc[p].request # Null)
        => StoredContext(proc[p].kind) # proc[p].request

\* C27: while an operation that carries a context waits for its OTP
\* confirmation, the context kept for the confirmation is the one the flow of
\* that operation created and sent with sca/validatePin, also when another
\* flow has started in between.
C27_ContextKeptUntilConfirmation ==
    (/\ otpPending # NoOperation
     /\ otpPending.action \in {SensitiveOperationAction.EXTERNAL_TRANSFER,
                               SensitiveOperationAction.ADD_TRANSFER_BENEFICIARY})
    => otpPending.context =
          StoredContext(IF otpPending.action = SensitiveOperationAction.EXTERNAL_TRANSFER
                        THEN "makeTransfer" ELSE "addNewBeneficiary")

(***************************************************************************)
(* Properties of overlapping requests, under SpecOverlap                   *)
(***************************************************************************)
\* C26: the auth token of each response processed replaces the session's,
\* whatever the order in which the server issued the tokens, and nothing
\* else changes it: the session ends with the token of the response
\* processed last.
C26_LastProcessedTokenWins ==
    [][/\ \A p \in Procs :
            (ReceivesSecure(p) /\ Truthy(proc'[p].headers.authToken))
            => session'.authToken = proc'[p].headers.authToken
       /\ session'.authToken # session.authToken
            => \E p \in Procs : ReceivesSecure(p)]_vars

\* Both responses have been received, the one with the newer token first: the
\* session holds the older token.
C26_Witness ==
    \E p, q \in Procs :
        /\ p # q
        /\ proc[p].pc = "body" /\ proc[q].pc = "body"
        /\ IssueOf(proc[p].headers.authToken) >= 1
        /\ IssueOf(proc[q].headers.authToken) > IssueOf(proc[p].headers.authToken)
        /\ session.authToken = proc[p].headers.authToken

\* C28: once connect has retained the identifier that login/cif returned,
\* loginWithRegieIdAndBirthdate submits that identifier.
C28_RetainedRegieIdSubmitted ==
    \A p \in Procs :
        (/\ proc[p].kind = "loginWithRegieIdAndBirthdate"
         /\ proc[p].pc = "fetch"
         /\ Truthy(session.regieId))
        => proc[p].reqs[1].body.regieId = session.regieId

(***************************************************************************)
(* Properties of the keypad layout, under SpecKeypad                       *)
(***************************************************************************)
\* Largest multiplier the layout is scaled by in the properties.
MaxMultiplier == 8

\* A cell of the layout with its four fields multiplied by m.
ScaledCell(c, m) ==
    [x |-> digitsPositions[c].x * m, y |-> digitsPositions[c].y * m,
     width |-> digitsPositions[c].width * m, height |-> digitsPositions[c].height * m]

\* Two rectangles, borders included, have no point in common.
Disjoint(a, b) ==
    \/ a.x + a.width < b.x
    \/ b.x + b.width < a.x
    \/ a.y + a.height < b.y
    \/ b.y + b.height < a.y

InsideCanvas(a, m) ==
    /\ a.x >= 0 /\ a.x + a.width <= CanvasWidth * m
    /\ a.y >= 0 /\ a.y + a.height <= CanvasHeight * m

\* C29: the layout has 10 cells; scaled by any multiplier m >= 1 they lie
\* inside the canvas of 484m x 190m and no two of them overlap; each
\* coordinate getClicksPositions returns lies in one cell only.
C29_CellsDisjointInsideCanvas ==
    /\ Cardinality(DOMAIN digitsPositions) = 10
    /\ \A m \in 1..MaxMultiplier :
          /\ \A c \in Cells : InsideCanvas(ScaledCell(c, m), m)
          /\ \A a, b \in Cells : a # b => Disjoint(ScaledCell(a, m), ScaledCell(b, m))
    /\ kpPc = "called"
         => \A i \in 1..Len(kpResult.clicks) :
               Cardinality({c \in Cells : InCellClosed(kpResult.clicks[i], c, kpMult)}) = 1

\* A scaled keypad on which two different cells have been clicked.
C29_Witness ==
    /\ kpPc = "called"
    /\ kpMult = ScaMultiplier
    /\ Len(kpResult.clicks) = 2
    /\ \E a, b \in Cells :
          /\ a # b
          /\ InCellClosed(kpResult.clicks[1], a, kpMult)
          /\ InCellClosed(kpResult.clicks[2], b, kpMult)

\* C30: every pixel of the keypad image, 484 x 190 scaled as the cells are,
\* belongs to some cell.
C30_CellsCoverCanvas ==
    \A px \in 0..(CanvasWidth * kpMult - 1), py \in 0..(CanvasHeight * kpMult - 1) :
        \E c \in Cells :
            LET cell == ScaledCell(c, kpMult)
            IN  /\ cell.x <= px /\ px < cell.x + cell.width
                /\ cell.y <= py /\ py < cell.y + cell.height

\* C34: whatever the image shows, getDigits returns ten entries, the entry
\* of index c being the classification of cell c, each an integer in 0..9.
C34_TenDigitsInCellOrder ==
    LET digits == getDigits(kpImage)
    IN  /\ DOMAIN digits = Cells
        /\ Cardinality(DOMAIN digits) = 10
        /\ \A c \in Cells :
              /\ digits[c] \in 0..9
              /\ \A t \in Cells : kpImage[c][digits[c]] <= kpImage[c][t]

\* A keypad with a cell that matches no template has been classified.
C34_Witness ==
    /\ kpPc = "called"
    /\ \E c \in Cells : kpImage[c] = BlankGlyph
    /\ \A c \in Cells : getDigits(kpImage)[c] \in 0..9

(***************************************************************************)
(* Properties of addNewBeneficiary and of the shell, under Spec            *)
(***************************************************************************)
\* C33: when externalAccounts/add/validateRequest answers with an error
\* payload, addNewBeneficiary returns and leaves both fields of
\* validationRequest as they were.
C33_BusinessErrorLeavesValidationRequest ==
    [][\A p \in Procs :
          (/\ Resumes(p, "addNewBeneficiary", "externalAccounts/add/validateRequest")
           /\ Truthy(GetProp(proc[p].response, "error")))
          => /\ validationRequest' = validationRequest
             /\ proc'[p].pc = "returned"]_vars

\* addNewBeneficiary has stopped on a business error while the context of an
\* earlier beneficiary is stored.
C33_Witness ==
    \E p \in Procs :
        /\ proc[p].kind = "addNewBeneficiary"
        /\ proc[p].pc = "returned"
        /\ Len(proc[p].reqs) = 1
        /\ Truthy(GetProp(proc[p].result, "error"))
        /\ validationRequest.externalAccountsRequest # Null

\* The handler of HTTP request p is inside a call on the IngApi instance.
InCall(p) == proc[p].kind = "shell" /\ proc[p].pc \in {"fetch", "body"}

\* C31: while the handler of one HTTP request awaits a network step of its
\* call on the shared instance, no handler of another request is inside a
\* call on it.
C31_ShellSerializesCalls ==
    \A p, q \in Procs : (p # q /\ InCall(p)) => ~InCall(q)

\* C32: GET /accounts/debit is served by the handler registered for
\* '/accounts/debit', which asks for the transfer debit accounts.
C32_DebitRouteServesDebitAccounts ==
    \A p \in Procs :
        (/\ proc[p].kind = "shell"
         /\ proc[p].action # "none"
         /\ proc[p].args = [method |-> "GET", path |-> <<"accounts", "debit">>])
        => /\ proc[p].action = "getTransfersDebitAccounts"
           /\ Paths(proc[p]) = <<"transfers/debitAccounts">>

=============================================================================
